---- MODULE Spec2Model ----
(***************************************************************************)
(* Model of the DBPF container engine of s4lt: header and index codecs,    *)
(* the writer, lazy resource extraction and the open / mutate / save       *)
(* lifecycle of Package (src/s4lt/core).  Files are byte sequences.        *)
(***************************************************************************)
EXTENDS Integers, Sequences, FiniteSets, TLC

VARIABLES fs, writes_left, ops_left, pkg, oplog, call, _sessions

vars == <<fs, writes_left, ops_left, pkg, oplog, call, _sessions>>

(***************************************************************************)
(* Bounds of the model.                                                    *)
(***************************************************************************)
MaxOps == 2
MaxWrites == 1
MaxBackupOps == 1
MaxBackupWrites == 2
MaxReadOps == 1
MaxReadWrites == 1
MaxHandles == 4
\* Header inputs: version numbers 0..MaxVersion, counts and sizes 0..MaxCount.
MaxVersion == 3
MaxCount == 1
\* Index inputs: at most MaxEntries rows.
MaxEntries == 2
\* Writer inputs: lists of at most MaxResources resources.
MaxResources == 2
\* Codec inputs: data of at most MaxLen bytes, expected sizes 0..MaxExpected.
MaxLen == 2
MaxExpected == 5
\* Sessions: at most MaxSessionOps queued changes.
MaxSessionOps == 1

(***************************************************************************)
(* Bytes and little-endian integers (struct.pack / struct.unpack).         *)
(***************************************************************************)
Min(a, b) == IF a < b THEN a ELSE b

pack_I(n) ==
  <<n % 256, (n \div 256) % 256, (n \div 65536) % 256, (n \div 16777216) % 256>>

pack_H(n) == <<n % 256, (n \div 256) % 256>>

unpack_I(b) == b[1] + 256 * b[2] + 65536 * b[3] + 16777216 * b[4]

unpack_H(b) == b[1] + 256 * b[2]

\* file.seek(pos); file.read(n): the bytes at 0-based positions pos..pos+n-1,
\* cut short at the end of the file.
ReadAt(bytes, pos, n) ==
  IF pos >= Len(bytes) \/ n <= 0 THEN <<>>
  ELSE SubSeq(bytes, pos + 1, Min(pos + n, Len(bytes)))

RECURSIVE Concat(_)
Concat(chunks) ==
  IF chunks = <<>> THEN <<>> ELSE Head(chunks) \o Concat(Tail(chunks))

RECURSIVE SumLen(_)
SumLen(chunks) ==
  IF chunks = <<>> THEN 0 ELSE Len(Head(chunks)) + SumLen(Tail(chunks))

(***************************************************************************)
(* Program constants.                                                      *)
(***************************************************************************)
HEADER_SIZE == 96
MAGIC == <<68, 66, 80, 70>>
COMPRESSION_NONE == 0
COMPRESSION_ZLIB == 23106
COMPRESSION_REFPACK == 65535
COMPRESSION_REFPACK_ALT == 65534

Ok(v) == [ok |-> TRUE, val |-> v, err |-> ""]
Raise(e) == [ok |-> FALSE, val |-> <<>>, err |-> e]

(***************************************************************************)
(* zlib, the library behind compress_zlib / decompress_zlib.  Raw DEFLATE  *)
(* is modelled by its stored-block form: one final block                   *)
(* 01 LEN NLEN data, with LEN a 16-bit length and NLEN its complement.     *)
(***************************************************************************)
zlib_deflate_raw(data) ==
  <<1>> \o pack_H(Len(data)) \o pack_H(65535 - Len(data)) \o data

\* zlib.decompress(stream, -MAX_WBITS): the data of the stored blocks up to
\* the final one; input after the final block is ignored; anything else is
\* zlib.error.
RECURSIVE zlib_inflate_raw(_)
zlib_inflate_raw(stream) ==
  IF Len(stream) < 5 THEN Raise("zlib.error")
  ELSE
    LET hd == stream[1]
        len == unpack_H(SubSeq(stream, 2, 3))
        nlen == unpack_H(SubSeq(stream, 4, 5))
    IN IF hd \notin {0, 1} \/ len + nlen # 65535 \/ Len(stream) < 5 + len
       THEN Raise("zlib.error")
       ELSE
         LET block == SubSeq(stream, 6, 5 + len)
         IN IF hd = 1 THEN Ok(block)
            ELSE
              LET rest == zlib_inflate_raw(SubSeq(stream, 6 + len, Len(stream)))
              IN IF rest.ok THEN Ok(block \o rest.val) ELSE rest

(***************************************************************************)
(* compression.py                                                          *)
(***************************************************************************)
\* Mutant: the 2-byte marker is left out.
compress_zlib_no_marker(data) == zlib_deflate_raw(data)

compress_zlib(data) == <<120, 156>> \o zlib_deflate_raw(data)

compress(data, compression_type) ==
  IF compression_type = COMPRESSION_NONE THEN Ok(data)
  ELSE IF compression_type = COMPRESSION_ZLIB THEN Ok(compress_zlib(data))
  ELSE Raise("CompressionError")

\* Mutant: the two-byte prefix is not skipped.
decompress_zlib_keeps_prefix(data, expected_size) ==
  IF Len(data) < 2 THEN Raise("CompressionError")
  ELSE
    LET Checked(result) ==
          IF ~result.ok THEN Raise("CompressionError")
          ELSE IF expected_size > 0 /\ Len(result.val) # expected_size
          THEN Raise("CompressionError")
          ELSE result
    IN Checked(zlib_inflate_raw(data))

\* Mutant: the inflated length is not compared with expected_size.
decompress_zlib_unchecked(data, expected_size) ==
  IF Len(data) < 2 THEN Raise("CompressionError")
  ELSE
    LET Checked(result) ==
          IF ~result.ok THEN Raise("CompressionError") ELSE result
    IN Checked(zlib_inflate_raw(SubSeq(data, 3, Len(data))))

decompress_zlib(data, expected_size) ==
  IF Len(data) < 2 THEN Raise("CompressionError")
  ELSE
    LET Checked(result) ==
          IF ~result.ok THEN Raise("CompressionError")
          ELSE IF expected_size > 0 /\ Len(result.val) # expected_size
          THEN Raise("CompressionError")
          ELSE result
    IN Checked(zlib_inflate_raw(SubSeq(data, 3, Len(data))))

\* _copy_backref: length bytes copied one at a time from offset bytes back,
\* so the copy may run into the bytes it has itself appended.
RECURSIVE CopyBytes(_, _, _)
CopyBytes(output, start, length) ==
  IF length = 0 THEN output
  ELSE CopyBytes(Append(output, output[start + 1]), start + 1, length - 1)

\* Mutant: an offset equal to the output length is rejected too.
_copy_backref_rejects_equal(output, offset, length) ==
  IF offset >= Len(output) THEN Raise("CompressionError")
  ELSE Ok(CopyBytes(output, Len(output) - offset, length))

\* Mutant: the bytes are copied in one piece from the output as it was.
_copy_backref_bulk(output, offset, length) ==
  IF offset > Len(output) THEN Raise("CompressionError")
  ELSE Ok(output \o ReadAt(output, Len(output) - offset, length))

_copy_backref(output, offset, length) ==
  IF offset > Len(output) THEN Raise("CompressionError")
  ELSE Ok(CopyBytes(output, Len(output) - offset, length))

\* Mutant: a run of literals that runs out of input ends there.
CopyLiterals_lenient(data, pos, output, n) ==
  Ok(output \o ReadAt(data, pos, n))

\* A run of n literal bytes at pos; running out of input raises.
CopyLiterals(data, pos, output, n) ==
  IF pos + n > Len(data) THEN Raise("CompressionError")
  ELSE Ok(output \o SubSeq(data, pos + 1, pos + n))

\* The command loop of decompress_refpack: the output when the loop ends, or
\* the error raised inside it.
RECURSIVE RefpackLoop(_, _, _, _)
RefpackLoop(data, pos, output, uncompressed_size) ==
  IF ~(pos < Len(data) /\ Len(output) < uncompressed_size) THEN Ok(output)
  ELSE
    LET cmd == data[pos + 1]
        p1 == pos + 1
        \* the loop goes on at position next once the copy out is made
        Continue(out, next) ==
          IF ~out.ok THEN out
          ELSE RefpackLoop(data, next, out.val, uncompressed_size)
    IN IF cmd <= 127 THEN
         LET literal_count == (cmd \div 32) % 4
             p2 == p1 + literal_count
             AfterLiterals(lits) ==
               IF ~lits.ok THEN lits
               ELSE IF p2 >= Len(data) THEN Raise("CompressionError")
               ELSE
                 LET byte2 == data[p2 + 1]
                     offset == ((cmd % 32) * 8 + ((byte2 \div 32) % 8)) + 1
                     length == (byte2 % 32) + 3
                 IN Continue(_copy_backref(lits.val, offset, length), p2 + 1)
         IN AfterLiterals(CopyLiterals(data, p1, output, literal_count))
       ELSE IF cmd <= 191 THEN
         IF p1 >= Len(data) THEN Raise("CompressionError")
         ELSE
           LET byte2 == data[p1 + 1]
               offset == ((cmd % 4) * 256 + byte2) + 1
               length == ((cmd \div 4) % 8) + 3
           IN Continue(_copy_backref(output, offset, length), p1 + 1)
       ELSE IF cmd <= 223 THEN
         IF p1 + 2 > Len(data) THEN Raise("CompressionError")
         ELSE
           LET byte2 == data[p1 + 1]
               byte3 == data[p1 + 2]
               offset == ((cmd % 4) * 4096 + byte2 * 16 + ((byte3 \div 16) % 16)) + 1
               length == ((cmd \div 4) % 16) + 4
           IN Continue(_copy_backref(output, offset, length), p1 + 2)
       ELSE IF cmd <= 251 THEN
         LET literal_count == cmd - 223
         IN Continue(CopyLiterals(data, p1, output, literal_count),
                     p1 + literal_count)
       ELSE
         \* stop code: up to cmd - 0xFC trailing literals, as far as there is input
         LET trailing == cmd - 252
         IN Ok(output \o ReadAt(data, p1, trailing))

\* One pass through the body of the while loop of decompress_refpack,
\* entered with the command byte at pos: the output and the position
\* afterwards and whether the pass ended in break, or the error it raised.
RefpackCommand(data, pos, output) ==
  LET cmd == data[pos + 1]
      p1 == pos + 1
      Advance(out, next, stop) ==
        IF ~out.ok THEN [ok |-> FALSE, val |-> <<>>, err |-> out.err,
                         pos |-> next, stop |-> FALSE]
        ELSE [ok |-> TRUE, val |-> out.val, err |-> "", pos |-> next,
              stop |-> stop]
  IN IF cmd <= 127 THEN
       LET literal_count == (cmd \div 32) % 4
           p2 == p1 + literal_count
           AfterLiterals(lits) ==
             IF ~lits.ok THEN Advance(lits, p2, FALSE)
             ELSE IF p2 >= Len(data)
             THEN Advance(Raise("CompressionError"), p2, FALSE)
             ELSE
               LET byte2 == data[p2 + 1]
                   offset == ((cmd % 32) * 8 + ((byte2 \div 32) % 8)) + 1
                   length == (byte2 % 32) + 3
               IN Advance(_copy_backref(lits.val, offset, length), p2 + 1,
                          FALSE)
       IN AfterLiterals(CopyLiterals(data, p1, output, literal_count))
     ELSE IF cmd <= 191 THEN
       IF p1 >= Len(data) THEN Advance(Raise("CompressionError"), p1, FALSE)
       ELSE
         LET byte2 == data[p1 + 1]
             offset == ((cmd % 4) * 256 + byte2) + 1
             length == ((cmd \div 4) % 8) + 3
         IN Advance(_copy_backref(output, offset, length), p1 + 1, FALSE)
     ELSE IF cmd <= 223 THEN
       IF p1 + 2 > Len(data) THEN Advance(Raise("CompressionError"), p1, FALSE)
       ELSE
         LET byte2 == data[p1 + 1]
             byte3 == data[p1 + 2]
             offset == ((cmd % 4) * 4096 + byte2 * 16 + ((byte3 \div 16) % 16)) + 1
             length == ((cmd \div 4) % 16) + 4
         IN Advance(_copy_backref(output, offset, length), p1 + 2, FALSE)
     ELSE IF cmd <= 251 THEN
       LET literal_count == cmd - 223
       IN Advance(CopyLiterals(data, p1, output, literal_count),
                  p1 + literal_count, FALSE)
     ELSE
       LET trailing == cmd - 252
       IN Advance(Ok(output \o ReadAt(data, p1, trailing)),
                  Min(p1 + trailing, Len(data)), TRUE)

\* Mutant: the decoded length is not compared with expected_size.
decompress_refpack_unchecked(data, expected_size) ==
  IF Len(data) < 5 THEN Raise("CompressionError")
  ELSE IF data[1] # 16 \/ data[2] # 251 THEN Raise("CompressionError")
  ELSE
    LET embedded == data[3] * 65536 + data[4] * 256 + data[5]
        uncompressed_size ==
          IF expected_size > 0 /\ embedded # expected_size
          THEN expected_size ELSE embedded
    IN RefpackLoop(data, 5, <<>>, uncompressed_size)

decompress_refpack(data, expected_size) ==
  IF Len(data) < 5 THEN Raise("CompressionError")
  ELSE IF data[1] # 16 \/ data[2] # 251 THEN Raise("CompressionError")
  ELSE
    LET embedded == data[3] * 65536 + data[4] * 256 + data[5]
        uncompressed_size ==
          IF expected_size > 0 /\ embedded # expected_size
          THEN expected_size ELSE embedded
        Checked(result) ==
          IF ~result.ok THEN result
          ELSE IF expected_size > 0 /\ Len(result.val) # expected_size
          THEN Raise("CompressionError")
          ELSE result
    IN Checked(RefpackLoop(data, 5, <<>>, uncompressed_size))

decompress(data, compression_type, expected_size) ==
  IF compression_type = COMPRESSION_NONE THEN Ok(data)
  ELSE IF compression_type = COMPRESSION_ZLIB
  THEN decompress_zlib(data, expected_size)
  ELSE IF compression_type \in {COMPRESSION_REFPACK, COMPRESSION_REFPACK_ALT}
  THEN decompress_refpack(data, expected_size)
  ELSE Raise("CompressionError")

(***************************************************************************)
(* header.py                                                               *)
(***************************************************************************)
\* DBPFHeader, or the exception parse_header raises.
\* Mutant: the version is checked before the tag.
parse_header_version_first(bytes) ==
  LET Parsed(data) ==
        IF Len(data) < HEADER_SIZE THEN Raise("InvalidMagicError")
        ELSE
          LET Versioned(version_major, version_minor) ==
                IF version_major # 2 THEN Raise("UnsupportedVersionError")
                ELSE IF SubSeq(data, 1, 4) # MAGIC
                THEN Raise("InvalidMagicError")
                ELSE Ok([version_major |-> version_major,
                         version_minor |-> version_minor,
                         entry_count |-> unpack_I(SubSeq(data, 37, 40)),
                         index_size |-> unpack_I(SubSeq(data, 45, 48)),
                         index_position |-> unpack_I(SubSeq(data, 65, 68))])
          IN Versioned(unpack_I(SubSeq(data, 5, 8)),
                       unpack_I(SubSeq(data, 9, 12)))
  IN Parsed(ReadAt(bytes, 0, HEADER_SIZE))

parse_header(bytes) ==
  LET Parsed(data) ==
        IF Len(data) < HEADER_SIZE THEN Raise("InvalidMagicError")
        ELSE IF SubSeq(data, 1, 4) # MAGIC THEN Raise("InvalidMagicError")
        ELSE
          LET Versioned(version_major, version_minor) ==
                IF version_major # 2 THEN Raise("UnsupportedVersionError")
                ELSE Ok([version_major |-> version_major,
                         version_minor |-> version_minor,
                         entry_count |-> unpack_I(SubSeq(data, 37, 40)),
                         index_size |-> unpack_I(SubSeq(data, 45, 48)),
                         index_position |-> unpack_I(SubSeq(data, 65, 68))])
          IN Versioned(unpack_I(SubSeq(data, 5, 8)),
                       unpack_I(SubSeq(data, 9, 12)))
  IN Parsed(ReadAt(bytes, 0, HEADER_SIZE))

(***************************************************************************)
(* index.py                                                                *)
(***************************************************************************)
IndexEntry(t, g, i, off, csize, usize, ctype) ==
  [type_id |-> t, group_id |-> g, instance_id |-> i, offset |-> off,
   compressed_size |-> csize, uncompressed_size |-> usize,
   compression_type |-> ctype]

is_compressed(entry) == entry.compression_type # COMPRESSION_NONE

\* flags & (1 << bit)
FlagSet(flags, bit) == (flags \div (2 ^ bit)) % 2 = 1

\* instance_hi << 32 | instance_lo
Instance64(hi, lo) == IF hi = 0 THEN lo ELSE hi * 65536 * 65536 + lo

\* The constants block after the flags word: for each set bit in order, one
\* 4-byte word.  Returns the four constants (-1: not present), the position
\* after the block, and whether every read was complete.
RECURSIVE ReadConstants(_, _, _, _, _)
ReadConstants(bytes, pos, flags, bit, acc) ==
  IF bit = 4 THEN [ok |-> TRUE, consts |-> acc, pos |-> pos]
  ELSE IF FlagSet(flags, bit)
  THEN LET Stored(const_data) ==
             IF Len(const_data) < 4
             THEN [ok |-> FALSE, consts |-> acc, pos |-> pos]
             ELSE ReadConstants(bytes, pos + 4, flags, bit + 1,
                                [acc EXCEPT ![bit + 1] = unpack_I(const_data)])
       IN Stored(ReadAt(bytes, pos, 4))
  ELSE ReadConstants(bytes, pos, flags, bit + 1, acc)

\* constants.get(name) or _read_uint32(file): the constant if it is present
\* and nonzero, otherwise the next word of the file.
ConstOrRead(bytes, pos, const) ==
  IF const > 0 THEN [ok |-> TRUE, val |-> const, pos |-> pos]
  ELSE LET Word(data) ==
             IF Len(data) < 4 THEN [ok |-> FALSE, val |-> 0, pos |-> pos]
             ELSE [ok |-> TRUE, val |-> unpack_I(data), pos |-> pos + 4]
       IN Word(ReadAt(bytes, pos, 4))

\* One iteration of the entry loop of parse_index.
ParseEntry(bytes, pos, consts) ==
  LET Entry(t, g, hi, lo, rest) ==
        IF ~(t.ok /\ g.ok /\ hi.ok /\ lo.ok) \/ Len(rest) < 16
        THEN [ok |-> FALSE, entry |-> <<>>, pos |-> pos]
        ELSE [ok |-> TRUE,
              entry |-> IndexEntry(t.val, g.val, Instance64(hi.val, lo.val),
                                   unpack_I(SubSeq(rest, 1, 4)),
                                   unpack_I(SubSeq(rest, 5, 7)
                                              \o <<rest[8] % 128>>),
                                   unpack_I(SubSeq(rest, 9, 12)),
                                   unpack_H(SubSeq(rest, 13, 14))),
              pos |-> lo.pos + 16]
      AfterLo(t, g, hi, lo) == Entry(t, g, hi, lo, ReadAt(bytes, lo.pos, 16))
      AfterHi(t, g, hi) ==
        AfterLo(t, g, hi, ConstOrRead(bytes, hi.pos, consts[4]))
      AfterGroup(t, g) == AfterHi(t, g, ConstOrRead(bytes, g.pos, consts[3]))
      AfterType(t) == AfterGroup(t, ConstOrRead(bytes, t.pos, consts[2]))
  IN AfterType(ConstOrRead(bytes, pos, consts[1]))

RECURSIVE ParseEntries(_, _, _, _)
ParseEntries(bytes, pos, consts, n) ==
  IF n = 0 THEN Ok(<<>>)
  ELSE LET Listed(e, more) ==
             IF more.ok THEN Ok(<<e.entry>> \o more.val) ELSE more
           Parsed(e) ==
             IF ~e.ok THEN Raise("CorruptedIndexError")
             ELSE Listed(e, ParseEntries(bytes, e.pos, consts, n - 1))
       IN Parsed(ParseEntry(bytes, pos, consts))

\* parse_index on a file positioned at pos.
parse_index(bytes, pos, entry_count) ==
  IF entry_count = 0 THEN Ok(<<>>)
  ELSE
    LET WithConstants(c) ==
          IF ~c.ok THEN Raise("CorruptedIndexError")
          ELSE ParseEntries(bytes, c.pos, c.consts, entry_count)
        WithFlags(flags_data) ==
          IF Len(flags_data) < 4 THEN Raise("CorruptedIndexError")
          ELSE WithConstants(ReadConstants(bytes, pos + 4,
                                           unpack_I(flags_data), 0,
                                           <<-1, -1, -1, -1>>))
    IN WithFlags(ReadAt(bytes, pos, 4))

(***************************************************************************)
(* writer.py                                                               *)
(***************************************************************************)
_build_header(entry_count, index_position, index_size) ==
  [k \in 1..HEADER_SIZE |->
     IF k \in 1..4 THEN MAGIC[k]
     ELSE IF k \in 5..8 THEN pack_I(2)[k - 4]
     ELSE IF k \in 9..12 THEN pack_I(1)[k - 8]
     ELSE IF k \in 37..40 THEN pack_I(entry_count)[k - 36]
     ELSE IF k \in 45..48 THEN pack_I(index_size)[k - 44]
     ELSE IF k \in 65..68 THEN pack_I(index_position)[k - 64]
     ELSE 0]

\* (instance_id >> 32) & 0xFFFFFFFF and instance_id & 0xFFFFFFFF
InstanceHi(i) == (i \div 65536) \div 65536
InstanceLo(i) == i - InstanceHi(i) * 65536 * 65536

EntryBytes(e) ==
  pack_I(e.type_id) \o pack_I(e.group_id)
    \o pack_I(InstanceHi(e.instance_id)) \o pack_I(InstanceLo(e.instance_id))
    \o pack_I(e.offset) \o pack_I(e.compressed_size)
    \o pack_I(e.uncompressed_size) \o pack_H(e.compression_type) \o pack_H(0)

RECURSIVE _build_index(_)
_build_index(entries) ==
  IF entries = <<>> THEN pack_I(0)
  ELSE _build_index(SubSeq(entries, 1, Len(entries) - 1))
         \o EntryBytes(entries[Len(entries)])

\* The stored bytes of one resource dict and its compression type.
StoredChunk(res) ==
  IF res.compress THEN compress(res.data, COMPRESSION_ZLIB).val ELSE res.data

\* Mutant: a compressed resource is recorded with the RefPack code.
StoredType_refpack(res) ==
  IF res.compress THEN COMPRESSION_REFPACK ELSE COMPRESSION_NONE

StoredType(res) ==
  IF res.compress THEN COMPRESSION_ZLIB ELSE COMPRESSION_NONE

\* The loop of write_package: data chunks and index entries with running
\* offsets.
RECURSIVE WriterEntries(_, _)
WriterEntries(resources, current_offset) ==
  IF resources = <<>> THEN <<>>
  ELSE LET Entered(res, compressed) ==
             <<IndexEntry(res.type_id, res.group_id, res.instance_id,
                          current_offset, Len(compressed), Len(res.data),
                          StoredType(res))>>
               \o WriterEntries(Tail(resources),
                                current_offset + Len(compressed))
       IN Entered(Head(resources), StoredChunk(Head(resources)))

\* Mutant: the running offset starts at 0, not after the header.
PackageBytes_offsets_from_zero(resources) ==
  LET Written(data_chunks, entry_count, index_data) ==
        _build_header(entry_count, HEADER_SIZE + SumLen(data_chunks),
                      Len(index_data))
          \o Concat(data_chunks) \o index_data
      Indexed(data_chunks, entries) ==
        Written(data_chunks, Len(entries), _build_index(entries))
  IN Indexed([k \in 1..Len(resources) |-> StoredChunk(resources[k])],
             WriterEntries(resources, 0))

\* The bytes write_package writes to the destination.
PackageBytes(resources) ==
  LET Written(data_chunks, entry_count, index_data) ==
        _build_header(entry_count, HEADER_SIZE + SumLen(data_chunks),
                      Len(index_data))
          \o Concat(data_chunks) \o index_data
      Indexed(data_chunks, entries) ==
        Written(data_chunks, Len(entries), _build_index(entries))
  IN Indexed([k \in 1..Len(resources) |-> StoredChunk(resources[k])],
             WriterEntries(resources, HEADER_SIZE))

(***************************************************************************)
(* The file system: the package paths and their .bak siblings.             *)
(***************************************************************************)
Paths == {"p", "q"}

\* path.with_suffix(path.suffix + ".bak")
BackupPath(path) == path \o ".bak"

FileNames == Paths \cup {BackupPath(path) : path \in Paths}

NoFile == [exists |-> FALSE, bytes |-> <<>>]
File(bytes) == [exists |-> TRUE, bytes |-> bytes]

(***************************************************************************)
(* resource.py                                                             *)
(***************************************************************************)
NotCached == [some |-> FALSE, data |-> <<>>]
Cached(data) == [some |-> TRUE, data |-> data]

\* Resource(entry, file)
Resource(entry) == [_entry |-> entry, _cached_data |-> NotCached]

TGIOf(x) == <<x.type_id, x.group_id, x.instance_id>>

\* Mutant: the cache is not consulted.
extract_rereads(res, file, source) ==
  IF file.closed
  THEN [result |-> Raise("ValueError"), res |-> res, read |-> FALSE]
  ELSE
    LET compressed_data ==
          ReadAt(source, res._entry.offset, res._entry.compressed_size)
        Extracted(data) ==
          [result |-> data,
           res |-> IF data.ok
                   THEN [res EXCEPT !._cached_data = Cached(data.val)]
                   ELSE res,
           read |-> TRUE]
    IN Extracted(decompress(compressed_data, res._entry.compression_type,
                            res._entry.uncompressed_size))

\* Resource.extract on a handle whose file object is `file`; `source` is what
\* a read through that file object returns bytes of.  Gives the result (or
\* the exception) and the handle afterwards.
extract(res, file, source) ==
  IF res._cached_data.some
  THEN [result |-> Ok(res._cached_data.data), res |-> res, read |-> FALSE]
  ELSE IF file.closed
  THEN [result |-> Raise("ValueError"), res |-> res, read |-> FALSE]
  ELSE
    LET compressed_data ==
          ReadAt(source, res._entry.offset, res._entry.compressed_size)
        Extracted(data) ==
          [result |-> data,
           res |-> IF data.ok
                   THEN [res EXCEPT !._cached_data = Cached(data.val)]
                   ELSE res,
           read |-> TRUE]
    IN Extracted(decompress(compressed_data, res._entry.compression_type,
                            res._entry.uncompressed_size))

(***************************************************************************)
(* writer.py: write_package on the file system.                            *)
(***************************************************************************)
\* Mutant: the backup is made whether or not create_backup is set.
write_package_always_backup(files, path, resources, create_backup) ==
  LET backup_path == BackupPath(path)
      backed == IF files[path].exists /\ ~files[backup_path].exists
                THEN [files EXCEPT ![backup_path] = files[path]]
                ELSE files
  IN [backed EXCEPT ![path] = File(PackageBytes(resources))]

\* Mutant: an existing backup is overwritten.
write_package_overwrites_backup(files, path, resources, create_backup) ==
  LET backup_path == BackupPath(path)
      backed == IF create_backup /\ files[path].exists
                THEN [files EXCEPT ![backup_path] = files[path]]
                ELSE files
  IN [backed EXCEPT ![path] = File(PackageBytes(resources))]

\* Mutant: a destination that exists is left as it is.
write_package_keeps_existing(files, path, resources, create_backup) ==
  IF files[path].exists THEN files
  ELSE [files EXCEPT ![path] = File(PackageBytes(resources))]

write_package(files, path, resources, create_backup) ==
  LET backup_path == BackupPath(path)
      backed == IF create_backup /\ files[path].exists
                   /\ ~files[backup_path].exists
                THEN [files EXCEPT ![backup_path] = files[path]]
                ELSE files
  IN [backed EXCEPT ![path] = File(PackageBytes(resources))]

\* Mutant: the backup is made once the destination is written.
write_package_backup_last(files, path, resources, create_backup, writes) ==
  [files EXCEPT ![path] =
     File(IF writes = 0 THEN <<>>
          ELSE SubSeq(PackageBytes(resources), 1,
                      HEADER_SIZE
                        + SumLen([k \in 1..(writes - 1) |->
                                    StoredChunk(resources[k])])))]

\* write_package cut off by the end of the process after the destination
\* was opened for writing and `writes` of its f.write calls were made, the
\* index not among them: the backup as write_package makes it, and the
\* destination holding what was written so far.
write_package_interrupted(files, path, resources, create_backup, writes) ==
  LET backup_path == BackupPath(path)
      backed == IF create_backup /\ files[path].exists
                   /\ ~files[backup_path].exists
                THEN [files EXCEPT ![backup_path] = files[path]]
                ELSE files
  IN [backed EXCEPT ![path] =
        File(IF writes = 0 THEN <<>>
             ELSE SubSeq(PackageBytes(resources), 1,
                         HEADER_SIZE
                           + SumLen([k \in 1..(writes - 1) |->
                                       StoredChunk(resources[k])])))]

(***************************************************************************)
(* package.py                                                              *)
(***************************************************************************)
NoPackage ==
  [live |-> FALSE, _file |-> [closed |-> TRUE, buffer |-> <<>>],
   _path |-> "p", _resources |-> <<>>, _pending_resources |-> <<>>,
   _removed_tgis |-> {}, _modified |-> FALSE]

\* Package.__init__
Package(file, resources, path) ==
  [live |-> TRUE, _file |-> file, _path |-> path, _resources |-> resources,
   _pending_resources |-> <<>>, _removed_tgis |-> {}, _modified |-> FALSE]

\* Mutant: close() on the file object does nothing.
file_close_skipped(file) == file

\* file.close() on the file object open() made.
file_close(file) == [file EXCEPT !.closed = TRUE]

\* Mutant: every resource is extracted while the package is opened.
PackageOpen_eager(bytes, path) ==
  LET file == [closed |-> FALSE, buffer |-> bytes]
      Failed(raised) ==
        [ok |-> FALSE, val |-> <<>>, err |-> raised.err,
         file |-> file_close(file)]
      Read(entry) == extract(Resource(entry), file, bytes)
      Indexed(entries) ==
        IF ~entries.ok THEN Failed(entries)
        ELSE IF \E k \in 1..Len(entries.val) : ~Read(entries.val[k]).result.ok
        THEN Failed(Raise("CompressionError"))
        ELSE [ok |-> TRUE,
              val |-> Package(file,
                              [k \in 1..Len(entries.val) |->
                                 Read(entries.val[k]).res],
                              path),
              err |-> "", file |-> file]
      Headed(header) ==
        IF ~header.ok THEN Failed(header)
        ELSE Indexed(parse_index(bytes, header.val.index_position,
                                 header.val.entry_count))
  IN Headed(parse_header(bytes))

\* Package.open on the bytes of the file: the new Package or the exception,
\* and the file object open() made, closed when parsing raised.
PackageOpen(bytes, path) ==
  LET file == [closed |-> FALSE, buffer |-> bytes]
      Failed(raised) ==
        [ok |-> FALSE, val |-> <<>>, err |-> raised.err,
         file |-> file_close(file)]
      Indexed(entries) ==
        IF ~entries.ok THEN Failed(entries)
        ELSE [ok |-> TRUE,
              val |-> Package(file,
                              [k \in 1..Len(entries.val) |->
                                 Resource(entries.val[k])],
                              path),
              err |-> "", file |-> file]
      Headed(header) ==
        IF ~header.ok THEN Failed(header)
        ELSE Indexed(parse_index(bytes, header.val.index_position,
                                 header.val.entry_count))
  IN Headed(parse_header(bytes))

\* Package.resources, find_by_type, find_by_instance, __len__
resources(P) == P._resources

find_by_type(P, type_id) ==
  SelectSeq(P._resources, LAMBDA r : r._entry.type_id = type_id)

find_by_instance(P, instance_id) ==
  LET hits == SelectSeq(P._resources,
                        LAMBDA r : r._entry.instance_id = instance_id)
  IN IF hits = <<>> THEN <<>> ELSE <<Head(hits)>>

PackageLen(P) == Len(P._resources) + Len(P._pending_resources)

mark_modified(P) == [P EXCEPT !._modified = TRUE]

\* Mutant: the new resource is also put into the committed list.
add_resource_commits(P, type_id, group_id, instance_id, data, compress_flag) ==
  [P EXCEPT !._pending_resources =
              Append(@, [type_id |-> type_id, group_id |-> group_id,
                         instance_id |-> instance_id, data |-> data,
                         compress |-> compress_flag]),
            !._resources =
              Append(@, [_entry |-> IndexEntry(type_id, group_id, instance_id,
                                               0, Len(data), Len(data),
                                               COMPRESSION_NONE),
                         _cached_data |-> Cached(data)]),
            !._modified = TRUE]

add_resource(P, type_id, group_id, instance_id, data, compress_flag) ==
  [P EXCEPT !._pending_resources =
              Append(@, [type_id |-> type_id, group_id |-> group_id,
                         instance_id |-> instance_id, data |-> data,
                         compress |-> compress_flag]),
            !._modified = TRUE]

\* Mutant: the key is built in the wrong field order.
remove_resource_wrong_key(P, type_id, group_id, instance_id) ==
  [P EXCEPT !._removed_tgis = @ \cup {<<group_id, type_id, instance_id>>},
            !._modified = TRUE]

remove_resource(P, type_id, group_id, instance_id) ==
  [P EXCEPT !._removed_tgis = @ \cup {<<type_id, group_id, instance_id>>},
            !._modified = TRUE]

update_resource(P, type_id, group_id, instance_id, data) ==
  add_resource(remove_resource(P, type_id, group_id, instance_id),
               type_id, group_id, instance_id, data, TRUE)

\* The first loop of save over self._resources from index k on: the dicts
\* collected, the handles afterwards (with their caches), and the exception
\* when an extract raised.
RECURSIVE CollectExisting(_, _, _, _, _)
CollectExisting(handles, k, removed, file, source) ==
  IF k > Len(handles)
  THEN [ok |-> TRUE, all |-> <<>>, handles |-> handles, read |-> FALSE]
  ELSE
    LET res == handles[k]
    IN IF TGIOf(res._entry) \in removed
       THEN CollectExisting(handles, k + 1, removed, file, source)
       ELSE
         LET Collected(x, rest) ==
               [ok |-> rest.ok,
                all |-> <<[type_id |-> res._entry.type_id,
                           group_id |-> res._entry.group_id,
                           instance_id |-> res._entry.instance_id,
                           data |-> x.result.val,
                           compress |-> is_compressed(res._entry)]>>
                        \o rest.all,
                handles |-> rest.handles,
                read |-> x.read \/ rest.read]
             Extracted(x) ==
               IF ~x.result.ok
               THEN [ok |-> FALSE, all |-> <<>>, handles |-> handles,
                     read |-> x.read]
               ELSE Collected(x, CollectExisting([handles EXCEPT ![k] = x.res],
                                                 k + 1, removed, file, source))
         IN Extracted(extract(res, file, source))

\* Mutant: the pending resources are written before the existing ones.
SaveResources_pending_first(P, source) ==
  LET All(got) ==
        [got EXCEPT !.all = IF got.ok THEN P._pending_resources \o got.all
                            ELSE <<>>]
  IN All(CollectExisting(P._resources, 1, P._removed_tgis, P._file, source))

\* Mutant: an extract that raises is swallowed and the save goes on with
\* the pending resources.
SaveResources_swallows(P, source) ==
  LET All(got) ==
        [got EXCEPT !.ok = TRUE,
                    !.all = IF got.ok THEN got.all \o P._pending_resources
                            ELSE P._pending_resources]
  IN All(CollectExisting(P._resources, 1, P._removed_tgis, P._file, source))

\* The list save hands to write_package.
SaveResources(P, source) ==
  LET All(got) ==
        [got EXCEPT !.all = IF got.ok THEN got.all \o P._pending_resources
                            ELSE <<>>]
  IN All(CollectExisting(P._resources, 1, P._removed_tgis, P._file, source))

\* Mutant: the removed set is kept.
ClearPending_keeps_removed(P) ==
  [P EXCEPT !._pending_resources = <<>>,
            !._modified = FALSE]

\* The end of save: "Clear pending state".
ClearPending(P) ==
  [P EXCEPT !._pending_resources = <<>>,
            !._removed_tgis = {},
            !._modified = FALSE]

\* What a read through the package's file object can return bytes of: the
\* reader's buffer, or the file as it is now on disk.
ReadSources(P, files) == {P._file.buffer, files[P._path].bytes}

\* The file object after a read served from `source`.
AfterRead(file, source, read) ==
  IF read THEN [file EXCEPT !.buffer = source] ELSE file

(***************************************************************************)
(* Inputs of the model: the TGIs and data callers pass, and the package    *)
(* files found on disk at the start.                                       *)
(***************************************************************************)
TGIs == {<<1, 0, 7>>, <<2, 0, 7>>}
\* The TGIs callers add or update resources under.
NewTGIs == {<<1, 0, 7>>}
DataValues == {<<65>>, <<66, 67>>}

\* tests/core/test_package.py create_test_package, with the stored bytes,
\* mem_size and compression code of each resource given.
RECURSIVE SeedEntries(_, _)
SeedEntries(items, offset) ==
  IF items = <<>> THEN <<>>
  ELSE LET it == Head(items)
       IN <<IndexEntry(it.tgi[1], it.tgi[2], it.tgi[3], offset,
                       Len(it.stored), it.mem_size, it.ctype)>>
            \o SeedEntries(Tail(items), offset + Len(it.stored))

create_test_package(items) ==
  LET resource_data == Concat([k \in 1..Len(items) |-> items[k].stored])
      index == _build_index(SeedEntries(items, HEADER_SIZE))
  IN _build_header(Len(items), HEADER_SIZE + Len(resource_data), Len(index))
       \o resource_data \o index

SeedItem(tgi, stored, mem_size, ctype) ==
  [tgi |-> tgi, stored |-> stored, mem_size |-> mem_size, ctype |-> ctype]

\* 10 FB, size 2, literal run "CD", stop.
RefpackCD == <<16, 251, 0, 0, 2, 225, 67, 68, 252>>

EmptyPackage == create_test_package(<<>>)

PlainPackage ==
  create_test_package(<<SeedItem(<<1, 0, 7>>, <<65>>, 1, COMPRESSION_NONE),
                        SeedItem(<<2, 0, 7>>, compress_zlib(<<66, 67>>), 2,
                                 COMPRESSION_ZLIB)>>)

\* One resource marked zlib whose stored bytes are no zlib stream.
CorruptPackage ==
  create_test_package(<<SeedItem(<<2, 0, 7>>, <<1, 2, 3>>, 3,
                                 COMPRESSION_ZLIB)>>)

\* Two resources under one TGI, the second stored as RefPack.
RefpackPackage ==
  create_test_package(<<SeedItem(<<1, 0, 7>>, <<65>>, 1, COMPRESSION_NONE),
                        SeedItem(<<1, 0, 7>>, RefpackCD, 2,
                                 COMPRESSION_REFPACK)>>)

SeedPackages == {EmptyPackage, PlainPackage, CorruptPackage, RefpackPackage}

\* A corrupt resource in front of a sound one.
MixedPackage ==
  create_test_package(<<SeedItem(<<1, 0, 7>>, <<1, 2, 3>>, 3, COMPRESSION_ZLIB),
                        SeedItem(<<2, 0, 7>>, <<65>>, 1, COMPRESSION_NONE)>>)

\* A package file with the index entries given as they are.
RawPackage(resource_data, entries) ==
  LET Laid(index) ==
        _build_header(Len(entries), HEADER_SIZE + Len(resource_data),
                      Len(index))
          \o resource_data \o index
  IN Laid(_build_index(entries))

\* Index entries whose sizes disagree with the file: an uncompressed
\* resource of 2 stored bytes declared 5 bytes long, a zlib resource declared
\* 0 bytes long, an uncompressed one of 4 bytes that starts 2 bytes before
\* the end of the file, and the zlib resource again (2 bytes when inflated)
\* declared 3 bytes long.
SizesPackage ==
  RawPackage(<<65, 66>> \o compress_zlib(<<67, 68>>),
             <<IndexEntry(1, 0, 7, 96, 2, 5, COMPRESSION_NONE),
               IndexEntry(2, 0, 7, 98, 9, 0, COMPRESSION_ZLIB),
               IndexEntry(3, 0, 7, 237, 4, 4, COMPRESSION_NONE),
               IndexEntry(4, 0, 7, 98, 9, 3, COMPRESSION_ZLIB)>>)

\* Files Package.open rejects: too short, wrong tag, wrong major version,
\* index cut short.
ShortFile == SubSeq(PlainPackage, 1, 50)
BadMagicFile == [PlainPackage EXCEPT ![1] = 0]
BadVersionFile == [PlainPackage EXCEPT ![5] = 3]
TruncatedIndexFile == SubSeq(PlainPackage, 1, Len(PlainPackage) - 1)

ReadSeeds ==
  { PlainPackage, RefpackPackage, MixedPackage, SizesPackage,
    ShortFile, BadMagicFile, BadVersionFile, TruncatedIndexFile }

(***************************************************************************)
(* The state machine: callers open packages on the paths, mutate them,     *)
(* extract, save and close.  oplog is the sequence of mutating calls       *)
(* issued on a package since it was opened or last saved (after a save:    *)
(* the calls that save covered, marked saved, until the next mutating call *)
(* or save); call is the call that returned                                *)
(* last: an open, a save, an extract or another one, with its outcome:     *)
(* what it returned or raised, the handle it was about, whether it read    *)
(* from a file object, and the file object it made.                        *)
(* writes_left and ops_left bound the runs: the files that may still be    *)
(* written and the mutating calls that may still be made.                  *)
(***************************************************************************)
NoFileObject == [closed |-> TRUE, buffer |-> <<>>]

Returned(c, op, path, k, result, read, file) ==
  [c |-> c, op |-> op, ok |-> result.ok, path |-> path, k |-> k,
   result |-> result, read |-> read, file |-> file]

Call(c, op, ok, path) ==
  Returned(c, op, path, 0, IF ok THEN Ok(<<>>) ELSE Raise("Exception"),
           FALSE, NoFileObject)

NoLog == [ops |-> <<>>, saved |-> FALSE]

\* _sessions: dict[str, EditSession] = {}
NoSessions == [key \in {} |-> 0]
Logged(log, op, tgi, data) ==
  [ops |-> (IF log.saved THEN <<>> ELSE log.ops)
             \o <<[op |-> op, tgi |-> tgi, data |-> data]>>,
   saved |-> FALSE]

InitWith(containers, seeds, max_ops, max_writes) ==
  /\ \E seed \in seeds :
       fs = [f \in FileNames |-> IF f = "p" THEN File(seed) ELSE NoFile]
  /\ writes_left = max_writes
  /\ ops_left = max_ops
  /\ pkg = [c \in containers |-> NoPackage]
  /\ oplog = [c \in containers |-> NoLog]
  /\ call = Call("c1", "none", TRUE, "p")
  /\ _sessions = NoSessions

Init == InitWith({"c1"}, SeedPackages, MaxOps, MaxWrites)

Containers == DOMAIN pkg

Open(c, path) ==
  /\ fs[path].exists
  /\ LET Opened(opened) ==
           /\ pkg' = IF opened.ok THEN [pkg EXCEPT ![c] = opened.val] ELSE pkg
           /\ oplog' = IF opened.ok THEN [oplog EXCEPT ![c] = NoLog] ELSE oplog
           /\ call' = Returned(c, "open", path, 0,
                               IF opened.ok THEN Ok(<<>>)
                               ELSE Raise(opened.err),
                               TRUE, opened.file)
     IN Opened(PackageOpen(fs[path].bytes, path))
  /\ UNCHANGED <<fs, writes_left, ops_left, _sessions>>

CanMutate(c) == pkg[c].live /\ ops_left > 0

\* mark_modified on a package not yet marked (on a marked one it changes
\* nothing).
MarkModified(c) ==
  /\ pkg[c].live
  /\ ~pkg[c]._modified
  /\ pkg' = [pkg EXCEPT ![c] = mark_modified(@)]
  /\ oplog' = [oplog EXCEPT ![c] = Logged(@, "mark", <<>>, <<>>)]
  /\ call' = Call(c, "other", TRUE, pkg[c]._path)
  /\ UNCHANGED <<fs, writes_left, ops_left, _sessions>>

AddResource(c, tgi, data, compress_flag) ==
  /\ CanMutate(c)
  /\ pkg' = [pkg EXCEPT ![c] =
               add_resource(@, tgi[1], tgi[2], tgi[3], data, compress_flag)]
  /\ oplog' = [oplog EXCEPT ![c] = Logged(@, "add", tgi, data)]
  /\ ops_left' = ops_left - 1
  /\ call' = Call(c, "other", TRUE, pkg[c]._path)
  /\ UNCHANGED <<fs, writes_left, _sessions>>

RemoveResource(c, tgi) ==
  /\ CanMutate(c)
  /\ pkg' = [pkg EXCEPT ![c] = remove_resource(@, tgi[1], tgi[2], tgi[3])]
  /\ oplog' = [oplog EXCEPT ![c] = Logged(@, "remove", tgi, <<>>)]
  /\ ops_left' = ops_left - 1
  /\ call' = Call(c, "other", TRUE, pkg[c]._path)
  /\ UNCHANGED <<fs, writes_left, _sessions>>

UpdateResource(c, tgi, data) ==
  /\ CanMutate(c)
  /\ pkg' = [pkg EXCEPT ![c] = update_resource(@, tgi[1], tgi[2], tgi[3], data)]
  /\ oplog' = [oplog EXCEPT ![c] = Logged(@, "update", tgi, data)]
  /\ ops_left' = ops_left - 1
  /\ call' = Call(c, "other", TRUE, pkg[c]._path)
  /\ UNCHANGED <<fs, writes_left, _sessions>>

\* resources[k].extract() by a caller.
Extract(c, k) ==
  /\ pkg[c].live
  /\ k \in 1..Len(pkg[c]._resources)
  /\ \E source \in ReadSources(pkg[c], fs) :
       LET Extracted(x) ==
             /\ pkg' = [pkg EXCEPT ![c]._resources[k] = x.res,
                                   ![c]._file = AfterRead(@, source, x.read)]
             /\ call' = Returned(c, "extract", pkg[c]._path, k, x.result,
                                 x.read, NoFileObject)
       IN Extracted(extract(pkg[c]._resources[k], pkg[c]._file, source))
  /\ UNCHANGED <<fs, writes_left, ops_left, oplog, _sessions>>

\* Package.save(path); target "None" is the default argument.
Save(c, target) ==
  /\ pkg[c].live
  /\ writes_left > 0
  /\ LET P == pkg[c]
         path == IF target = "None" THEN P._path ELSE target
         Saved(got, file) ==
           IF got.ok
           THEN /\ fs' = write_package(fs, path, got.all, P._modified)
                /\ writes_left' = writes_left - 1
                /\ UNCHANGED <<ops_left, _sessions>>
                /\ pkg' = [pkg EXCEPT ![c] =
                             ClearPending([P EXCEPT !._resources = got.handles,
                                                    !._file = file])]
                /\ oplog' = [oplog EXCEPT ![c] =
                               [ops |-> IF @.saved THEN <<>> ELSE @.ops,
                                saved |-> TRUE]]
                /\ call' = Call(c, "save", TRUE, path)
           ELSE /\ pkg' = [pkg EXCEPT ![c]._resources = got.handles,
                                      ![c]._file = file]
                /\ call' = Call(c, "save", FALSE, path)
                /\ UNCHANGED <<fs, writes_left, ops_left, oplog, _sessions>>
         Collected(got, source) ==
           Saved(got, AfterRead(P._file, source, got.read))
     IN \E source \in ReadSources(P, fs) :
          Collected(SaveResources(P, source), source)

Close(c) ==
  /\ pkg[c].live
  /\ ~pkg[c]._file.closed
  /\ pkg' = [pkg EXCEPT ![c]._file = file_close(@)]
  /\ call' = Call(c, "other", TRUE, pkg[c]._path)
  /\ UNCHANGED <<fs, writes_left, ops_left, oplog, _sessions>>

\* One package object at a time, opened, mutated and saved.
Next ==
  \/ \E c \in Containers, path \in Paths : Open(c, path)
  \/ \E c \in Containers : MarkModified(c)
  \/ \E c \in Containers, tgi \in NewTGIs, data \in DataValues :
       AddResource(c, tgi, data, TRUE)
  \/ \E c \in Containers, tgi \in TGIs : RemoveResource(c, tgi)
  \/ \E c \in Containers, tgi \in NewTGIs, data \in DataValues :
       UpdateResource(c, tgi, data)
  \/ \E c \in Containers, target \in Paths \cup {"None"} : Save(c, target)

Spec == Init /\ [][Next]_vars

(***************************************************************************)
(* Backups: two package objects that may be open on the same path at the   *)
(* same time, marked or mutated by adding one resource, and saved to       *)
(* their own path or to another one.                                       *)
(***************************************************************************)
InitBackup ==
  InitWith({"c1", "c2"}, {EmptyPackage, PlainPackage, CorruptPackage},
           MaxBackupOps, MaxBackupWrites)

NextBackup ==
  \/ \E c \in Containers : Open(c, "p")
  \/ \E c \in Containers : MarkModified(c)
  \/ \E c \in Containers : AddResource(c, <<1, 0, 7>>, <<65>>, TRUE)
  \/ \E c \in Containers, target \in Paths \cup {"None"} : Save(c, target)

SpecBackup == InitBackup /\ [][NextBackup]_vars

(***************************************************************************)
(* Reading: one package object opened on good and bad files, its handles   *)
(* extracted, the package closed, and its file rewritten by a save after   *)
(* a resource was removed.                                                 *)
(***************************************************************************)
\* Package.open of a path that does not exist: open() raises and no file
\* object is made.
OpenMissing(c, path) ==
  /\ ~fs[path].exists
  /\ call' = Returned(c, "open", path, 0, Raise("FileNotFoundError"), FALSE,
                      NoFileObject)
  /\ UNCHANGED <<fs, writes_left, ops_left, pkg, oplog, _sessions>>

InitRead == InitWith({"c1"}, ReadSeeds, MaxReadOps, MaxReadWrites)

NextRead ==
  \/ \E c \in Containers, path \in Paths : Open(c, path)
  \/ \E c \in Containers, path \in Paths : OpenMissing(c, path)
  \/ \E c \in Containers, k \in 1..MaxHandles : Extract(c, k)
  \/ \E c \in Containers : Close(c)
  \/ \E c \in Containers, tgi \in TGIs : RemoveResource(c, tgi)
  \/ \E c \in Containers, target \in Paths \cup {"None"} : Save(c, target)

SpecRead == InitRead /\ [][NextRead]_vars

(***************************************************************************)
(* Properties of save.                                                     *)
(*                                                                         *)
(* In the state in which save has just returned to its caller, oplog      *)
(* still holds the calls that save wrote, pkg the package after it and fs  *)
(* the file it produced.                                                   *)
(***************************************************************************)
JustSaved(c) == call.op = "save" /\ call.ok /\ call.c = c

\* What a fresh Package.open of the path gives now.
Reopened(path) == PackageOpen(fs[path].bytes, path)

\* The TGI, extracted bytes and compression flag of every resource of a
\* freshly opened package, in index order.
ContentOf(opened, bytes) ==
  [k \in 1..Len(opened._resources) |->
     [tgi |-> TGIOf(opened._resources[k]._entry),
      data |-> extract(opened._resources[k], opened._file, bytes).result,
      compress |-> is_compressed(opened._resources[k]._entry)]]

FileContent(path) == ContentOf(Reopened(path).val, fs[path].bytes)

\* The calls in a log that add a resource (add, update) or remove one
\* (remove, update).
Adds(ops) == SelectSeq(ops, LAMBDA o : o.op \in {"add", "update"})
RemovedBy(ops) == {ops[k].tgi : k \in {j \in 1..Len(ops) : ops[j].op \in {"remove", "update"}}}
OpsOn(ops, tgi) == SelectSeq(ops, LAMBDA o : o.tgi = tgi)
WithTGI(content, tgi) == SelectSeq(content, LAMBDA r : r.tgi = tgi)

\* C1: after add_resource(t, g, i, data) on an opened package and a
\* successful save, a fresh open of the saved path holds one resource more
\* than the package held, among them one with TGI (t, g, i) whose extract()
\* returns exactly data.
C1_AddSaveReopen ==
  \A c \in Containers :
    (JustSaved(c) /\ Len(oplog[c].ops) = 1 /\ oplog[c].ops[1].op = "add") =>
      /\ Reopened(call.path).ok
      /\ Len(FileContent(call.path)) = Len(pkg[c]._resources) + 1
      /\ \E k \in 1..Len(FileContent(call.path)) :
           /\ FileContent(call.path)[k].tgi = oplog[c].ops[1].tgi
           /\ FileContent(call.path)[k].data = Ok(oplog[c].ops[1].data)

C1_Witness ==
  \E c \in Containers :
    /\ JustSaved(c) /\ Len(oplog[c].ops) = 1 /\ oplog[c].ops[1].op = "add"
    /\ Len(pkg[c]._resources) = 2
    /\ Len(FileContent(call.path)) = 3

\* C2: after a successful save the committed resource list of the package
\* is the resource list that was written: the same TGIs in the same order.
C2_CommittedIsWritten ==
  \A c \in Containers :
    JustSaved(c) =>
      [k \in 1..Len(pkg[c]._resources) |-> TGIOf(pkg[c]._resources[k]._entry)]
        = [k \in 1..Len(FileContent(call.path)) |-> FileContent(call.path)[k].tgi]

\* The list C3 describes: the originally read resources whose TGI was not
\* removed, in index order, with their extracted bytes and is_compressed,
\* then the added ones in the order of the calls.
ExpectedWritten(P, ops) ==
  LET kept == SelectSeq(P._resources,
                        LAMBDA r : TGIOf(r._entry) \notin RemovedBy(ops))
      added == Adds(ops)
  IN [k \in 1..Len(kept) |->
        [tgi |-> TGIOf(kept[k]._entry),
         data |-> Ok(kept[k]._cached_data.data),
         compress |-> is_compressed(kept[k]._entry)]]
     \o [k \in 1..Len(added) |->
           [tgi |-> added[k].tgi, data |-> Ok(added[k].data), compress |-> TRUE]]

\* C3: the resources save writes are the originally read ones whose TGI is
\* not in the removed set, in index order, each with its extracted bytes and
\* its is_compressed as compress flag, followed by the pending ones in the
\* order they were added.
C3_WrittenList ==
  \A c \in Containers :
    JustSaved(c) =>
      /\ Reopened(call.path).ok
      /\ FileContent(call.path) = ExpectedWritten(pkg[c], oplog[c].ops)

C3_Witness ==
  \E c \in Containers :
    /\ JustSaved(c)
    /\ Adds(oplog[c].ops) # <<>>
    /\ \E k, m \in 1..Len(pkg[c]._resources) :
         /\ TGIOf(pkg[c]._resources[k]._entry) \in RemovedBy(oplog[c].ops)
         /\ TGIOf(pkg[c]._resources[m]._entry) \notin RemovedBy(oplog[c].ops)
         /\ is_compressed(pkg[c]._resources[m]._entry)

\* C4: after two update_resource calls for the same TGI with different data
\* and one save, the file holds exactly one resource with that TGI, with the
\* data of the second call, and none with the data of the first.
C4_LatestUpdateOnly ==
  \A c \in Containers :
    ( /\ JustSaved(c)
      /\ Len(oplog[c].ops) = 2
      /\ oplog[c].ops[1].op = "update" /\ oplog[c].ops[2].op = "update"
      /\ oplog[c].ops[1].tgi = oplog[c].ops[2].tgi
      /\ oplog[c].ops[1].data # oplog[c].ops[2].data ) =>
      LET same == WithTGI(FileContent(call.path), oplog[c].ops[1].tgi)
      IN /\ Len(same) = 1
         /\ same[1].data = Ok(oplog[c].ops[2].data)

\* C5: when remove_resource(T) was followed by add_resource(T, d) before the
\* save, the file holds a resource with TGI T and data d, and its resources
\* with TGI T are the added ones only: none of the originally read ones.
C5_AddAfterRemoveWins ==
  \A c \in Containers :
    JustSaved(c) =>
      \A i, j \in 1..Len(oplog[c].ops) :
        ( /\ i < j
          /\ oplog[c].ops[i].op = "remove" /\ oplog[c].ops[j].op = "add"
          /\ oplog[c].ops[i].tgi = oplog[c].ops[j].tgi ) =>
          LET T == oplog[c].ops[j].tgi
              same == WithTGI(FileContent(call.path), T)
              added == Adds(OpsOn(oplog[c].ops, T))
          IN /\ \E k \in 1..Len(same) : same[k].data = Ok(oplog[c].ops[j].data)
             /\ [k \in 1..Len(same) |-> same[k].data]
                  = [k \in 1..Len(added) |-> Ok(added[k].data)]

C5_Witness ==
  \E c \in Containers :
    /\ JustSaved(c)
    /\ Len(oplog[c].ops) = 2
    /\ oplog[c].ops[1].op = "remove" /\ oplog[c].ops[2].op = "add"
    /\ oplog[c].ops[1].tgi = oplog[c].ops[2].tgi
    /\ \E k \in 1..Len(pkg[c]._resources) :
         /\ TGIOf(pkg[c]._resources[k]._entry) = oplog[c].ops[1].tgi
         /\ pkg[c]._resources[k]._entry.compression_type = COMPRESSION_NONE
         /\ ReadAt(pkg[c]._file.buffer, pkg[c]._resources[k]._entry.offset, 1)
              # oplog[c].ops[2].data

\* C6: when the last call on a TGI before the save was remove_resource, the
\* file holds no resource with that TGI.
C6_LastRemoveWins ==
  \A c \in Containers :
    JustSaved(c) =>
      \A T \in TGIs :
        LET on == OpsOn(oplog[c].ops, T)
        IN (on # <<>> /\ on[Len(on)].op = "remove") =>
             WithTGI(FileContent(call.path), T) = <<>>

\* C7: when save has returned successfully the pending list is empty, the
\* removed set is empty and the modified flag is false.
C7_SaveClears ==
  \A c \in Containers :
    JustSaved(c) =>
      /\ pkg[c]._pending_resources = <<>>
      /\ pkg[c]._removed_tgis = {}
      /\ pkg[c]._modified = FALSE

C7_Witness ==
  \E c \in Containers :
    /\ JustSaved(c)
    /\ \E i, j \in 1..Len(oplog[c].ops) :
         oplog[c].ops[i].op = "mark" /\ oplog[c].ops[j].op = "update"

(***************************************************************************)
(* Properties of the backup and of the read API, stated on steps: a step   *)
(* into a state whose call is a save is the return of that save.           *)
(***************************************************************************)
\* No mutating call (add, remove, update, mark_modified) was made on the
\* package since it was opened or last saved.
Untouched(c) == oplog[c].saved \/ oplog[c].ops = <<>>

BackupCreated(path) ==
  ~fs[BackupPath(path)].exists /\ fs'[BackupPath(path)].exists

\* The conditions C8 names, at the time of a save to path by package c.
BackupDue(c, path) ==
  /\ pkg[c]._modified
  /\ fs[path].exists
  /\ ~fs[BackupPath(path)].exists

\* C8 as stated, of every save call: P.bak is created exactly when the
\* modified flag is set, P exists and P.bak does not exist yet.
C8_BackupIffEverySave ==
  [][ call'.op = "save" =>
        (BackupCreated(call'.path) <=> BackupDue(call'.c, call'.path))
    ]_vars

\* C8, amended: a save to path P that returns successfully creates P.bak
\* exactly when the modified flag is set, P exists and P.bak does not exist
\* yet; the new P.bak holds the bytes P had before the save; a save that
\* raises, or a save of a package with no mutating call since open or since
\* its last save, creates no backup.
C8_BackupIff ==
  [][ call'.op = "save" =>
        /\ call'.ok =>
             ( BackupCreated(call'.path)
                 <=> BackupDue(call'.c, call'.path) )
        /\ BackupCreated(call'.path) =>
             fs'[BackupPath(call'.path)].bytes = fs[call'.path].bytes
        /\ ~call'.ok => ~BackupCreated(call'.path)
        /\ Untouched(call'.c) => ~BackupCreated(call'.path)
        /\ \A other \in Paths \ {call'.path} : ~BackupCreated(other)
    ]_vars

C8_Witness ==
  /\ call.op = "save" /\ call.ok
  /\ fs[BackupPath(call.path)].exists
  /\ fs[BackupPath(call.path)].bytes # fs[call.path].bytes
  /\ oplog[call.c].saved /\ oplog[call.c].ops # <<>>

\* C9: once P.bak exists, no step changes it.
C9_BackupKept ==
  [][ \A path \in Paths :
        fs[BackupPath(path)].exists =>
          fs'[BackupPath(path)] = fs[BackupPath(path)]
    ]_vars

\* p.bak exists, and after it was made a second save, of a modified
\* package, has rewritten p.
C9_Witness ==
  /\ call.op = "save" /\ call.ok /\ call.path = "p"
  /\ oplog[call.c].saved /\ oplog[call.c].ops # <<>>
  /\ fs["p.bak"].exists /\ ~fs["q"].exists
  /\ writes_left <= MaxBackupWrites - 2
  /\ fs["p.bak"].bytes # fs["p"].bytes

\* The type and instance ids in use.
TypeIds == {tgi[1] : tgi \in TGIs}
InstanceIds == {tgi[3] : tgi \in TGIs}

\* The first handle in index order with the instance id, or none.
FirstWithInstance(P, instance_id) ==
  LET at == {k \in 1..Len(P._resources) :
               P._resources[k]._entry.instance_id = instance_id}
  IN IF at = {} THEN <<>>
     ELSE <<P._resources[CHOOSE k \in at : \A m \in at : k <= m]>>

\* C10: add_resource, remove_resource and update_resource leave what
\* resources, find_by_type and find_by_instance return unchanged, and
\* find_by_instance returns the first committed match in index order or
\* nothing.
C10_ReadApiUnchanged ==
  [][ ops_left' # ops_left =>
        \A c \in Containers :
          /\ resources(pkg'[c]) = resources(pkg[c])
          /\ \A t \in TypeIds :
               find_by_type(pkg'[c], t) = find_by_type(pkg[c], t)
          /\ \A i \in InstanceIds :
               /\ find_by_instance(pkg'[c], i) = find_by_instance(pkg[c], i)
               /\ find_by_instance(pkg'[c], i) = FirstWithInstance(pkg[c], i)
    ]_vars

C10_Witness ==
  \E c \in Containers :
    /\ pkg[c].live
    /\ Len(pkg[c]._resources) = 2
    /\ Len(pkg[c]._pending_resources) = 2
    /\ pkg[c]._removed_tgis # {}
    /\ Len(find_by_type(pkg[c], 1)) = 2

(***************************************************************************)
(* Properties of extract and open, stated on the call that returned last   *)
(* or on the step that is its return.                                      *)
(***************************************************************************)
\* The cache of handle k of package c.
CacheOf(P, k) == P._resources[k]._cached_data

\* C11: an extract on a handle that holds a cached buffer returns that
\* buffer, reads nothing from the file object and leaves the cache as it
\* is; a first successful extract caches what it returns; a failing extract
\* leaves the cache empty; and no other call on the package (save, close,
\* remove_resource) changes a filled cache, whatever happened to the file.
C11_CachedExtract ==
  [][ /\ call'.op = "extract" =>
           /\ CacheOf(pkg[call'.c], call'.k).some =>
                /\ call'.result = Ok(CacheOf(pkg[call'.c], call'.k).data)
                /\ ~call'.read
                /\ pkg'[call'.c]._file = pkg[call'.c]._file
                /\ CacheOf(pkg'[call'.c], call'.k)
                     = CacheOf(pkg[call'.c], call'.k)
           /\ (~CacheOf(pkg[call'.c], call'.k).some /\ call'.ok) =>
                CacheOf(pkg'[call'.c], call'.k) = Cached(call'.result.val)
           /\ ~call'.ok => ~CacheOf(pkg'[call'.c], call'.k).some
      /\ call'.op # "open" =>
           \A c \in Containers :
             \A k \in 1..Len(pkg[c]._resources) :
               CacheOf(pkg[c], k).some =>
                 /\ k <= Len(pkg'[c]._resources)
                 /\ CacheOf(pkg'[c], k) = CacheOf(pkg[c], k)
    ]_vars

\* An extract answered from the cache after the package was closed and its
\* file rewritten with other bytes.
C11_Witness ==
  /\ call.op = "extract" /\ call.ok /\ ~call.read
  /\ call.result.val # <<>>
  /\ pkg[call.c]._file.closed
  /\ writes_left = 0
  /\ fs[pkg[call.c]._path].bytes # pkg[call.c]._file.buffer

\* The index entry of the handle the last extract was called on.
EntryOf(c, k) == pkg[c]._resources[k]._entry

\* C12 as stated: whenever extract() returns, the buffer is exactly
\* uncompressed_size bytes long, for every compression type and every entry.
C12_LengthIsUncompressedSize ==
  (call.op = "extract" /\ call.ok) =>
    Len(call.result.val) = EntryOf(call.c, call.k).uncompressed_size

\* C12, amended: whenever extract() returns on a handle whose compression
\* type is not NONE and whose uncompressed_size is positive, the buffer is
\* exactly uncompressed_size bytes long; on a handle of type NONE the buffer
\* is the bytes the read at the entry's offset gave, compressed_size of them
\* or fewer at the end of the file, whatever uncompressed_size says.
C12_LengthWhenChecked ==
  (call.op = "extract" /\ call.ok) =>
    /\ ( /\ EntryOf(call.c, call.k).compression_type # COMPRESSION_NONE
         /\ EntryOf(call.c, call.k).uncompressed_size > 0 ) =>
          Len(call.result.val) = EntryOf(call.c, call.k).uncompressed_size
    /\ EntryOf(call.c, call.k).compression_type = COMPRESSION_NONE =>
          /\ Len(call.result.val) <= EntryOf(call.c, call.k).compressed_size
          /\ call.read =>
                \E source \in ReadSources(pkg[call.c], fs) :
                  call.result.val =
                    ReadAt(source, EntryOf(call.c, call.k).offset,
                           EntryOf(call.c, call.k).compressed_size)

\* A zlib handle with a positive declared size extracted, in a package
\* that also holds entries whose sizes disagree with the file.
C12_Witness ==
  /\ call.op = "extract" /\ call.ok /\ call.read
  /\ EntryOf(call.c, call.k).compression_type = COMPRESSION_ZLIB
  /\ EntryOf(call.c, call.k).uncompressed_size = Len(call.result.val)
  /\ Len(call.result.val) > 0

\* The file with every byte between the header and the index set to 0.
Blanked(bytes) ==
  LET index_position == unpack_I(SubSeq(bytes, 65, 68))
  IN SubSeq(bytes, 1, HEADER_SIZE)
       \o [i \in 1..(index_position - HEADER_SIZE) |-> 0]
       \o SubSeq(bytes, index_position + 1, Len(bytes))

\* What extract() on handle k of package P can return.
Outcomes(P, k, files) ==
  {extract(P._resources[k], P._file, source).result :
     source \in ReadSources(P, files)}

\* C13: Package.open succeeds exactly when the header and the index parse,
\* and then holds one handle per index entry, entry_count of them, none with
\* extracted data, the same handles as for the file with its resource bytes
\* blanked; and an extract() that raises leaves every handle of the package as
\* it was and gives extract() on any handle no outcome it did not have before.
C13_OpenIsLazy ==
  [][ /\ (call'.op = "open" /\ call'.read) =>
           LET bytes == fs[call'.path].bytes
               header == parse_header(bytes)
               blank == PackageOpen(Blanked(bytes), call'.path)
           IN /\ call'.ok <=>
                   /\ header.ok
                   /\ parse_index(bytes, header.val.index_position,
                                  header.val.entry_count).ok
              /\ call'.ok =>
                   /\ Len(pkg'[call'.c]._resources)
                        = unpack_I(SubSeq(bytes, 37, 40))
                   /\ \A k \in 1..Len(pkg'[call'.c]._resources) :
                        ~CacheOf(pkg'[call'.c], k).some
                   /\ blank.ok
                   /\ blank.val._resources = pkg'[call'.c]._resources
      /\ (call'.op = "extract" /\ ~call'.ok) =>
           /\ pkg'[call'.c].live
           /\ pkg'[call'.c]._resources = pkg[call'.c]._resources
           /\ pkg'[call'.c]._file.closed = pkg[call'.c]._file.closed
           /\ \A j \in 1..Len(pkg[call'.c]._resources) :
                Outcomes(pkg'[call'.c], j, fs') \subseteq
                  Outcomes(pkg[call'.c], j, fs)
    ]_vars

\* A package with a resource that does not decompress is open; extract on
\* that handle raised CompressionError, and the other handle extracts.
C13_Witness ==
  /\ call.op = "extract" /\ ~call.ok /\ call.read
  /\ call.result.err = "CompressionError"
  /\ \E j \in 1..Len(pkg[call.c]._resources) :
       /\ j # call.k
       /\ \A outcome \in Outcomes(pkg[call.c], j, fs) :
            outcome.ok /\ outcome.val # <<>>

\* C14: when Package.open returns a package, the package holds the file
\* object the call opened, open; when it raises after opening the file
\* (InvalidMagicError, UnsupportedVersionError, CorruptedIndexError), that file
\* object is closed.
C14_ClosedOnFailure ==
  [][ (call'.op = "open" /\ call'.read) =>
        IF call'.ok
        THEN /\ pkg'[call'.c]._file = call'.file
             /\ ~call'.file.closed
        ELSE /\ call'.file.closed
             /\ call'.file.buffer = fs[call'.path].bytes
             /\ pkg'[call'.c] = pkg[call'.c]
    ]_vars

\* An open of a file whose index is cut short raised, its file closed.
C14_Witness ==
  /\ call.op = "open" /\ ~call.ok /\ call.read
  /\ call.result.err = "CorruptedIndexError"
  /\ call.file.closed
  /\ call.file.buffer = fs[call.path].bytes

(***************************************************************************)
(* parse_header applied to drawn inputs.                                   *)
(***************************************************************************)
Zeros(n) == [i \in 1..n |-> 0]

\* 96 bytes laid out as a header: tag, versions, entry count at 36, index
\* size at 44, index position at 64.
HeaderImage(tag, major, minor, count, size, position) ==
  tag \o pack_I(major) \o pack_I(minor) \o Zeros(24) \o pack_I(count)
      \o Zeros(4) \o pack_I(size) \o Zeros(16) \o pack_I(position)
      \o Zeros(28)

HeaderTags == {MAGIC, <<68, 66, 80, 71>>, <<100, 98, 112, 102>>}
HeaderVersions == (0..MaxVersion) \cup {258, 33554432}
HeaderCounts == (0..MaxCount) \cup {70000}
HeaderLengths == {0, 3, 4, 95, 96, 100}

\* The files parse_header is applied to: header images followed by four more
\* bytes, cut at the lengths above.
HeaderInputs ==
  {SubSeq(HeaderImage(tag, major, minor, count, size, position)
            \o <<1, 2, 3, 4>>, 1, length) :
     tag \in HeaderTags, major \in HeaderVersions,
     minor \in 0..MaxVersion, count \in HeaderCounts,
     size \in 0..MaxCount, position \in HeaderCounts,
     length \in HeaderLengths}

InitHeader == InitWith({"c1"}, HeaderInputs, 0, 0)

\* parse_header on a file just opened for reading.
ParseHeader(path) ==
  /\ fs[path].exists
  /\ call' = Returned("c1", "parse_header", path, 0,
                      parse_header(fs[path].bytes), TRUE, NoFileObject)
  /\ UNCHANGED <<fs, writes_left, ops_left, pkg, oplog, _sessions>>

NextHeader == \E path \in Paths : ParseHeader(path)

SpecHeader == InitHeader /\ [][NextHeader]_vars

\* The 32-bit little-endian number at byte offset `at` of b.
LittleEndianAt(b, at) ==
  b[at + 1] + 256 * b[at + 2] + 65536 * b[at + 3] + 16777216 * b[at + 4]

\* C15: parse_header raises InvalidMagicError when fewer than 96 bytes are
\* available or the first four bytes are not the tag, whatever the version
\* bytes are; otherwise UnsupportedVersionError when the major version is
\* not 2; otherwise it returns, for any minor version, the entry count, index
\* size and index position read little-endian at offsets 36, 44 and 64.
C15_HeaderClassified ==
  call.op = "parse_header" =>
    IF \/ Len(fs[call.path].bytes) < 96
       \/ SubSeq(fs[call.path].bytes, 1, 4) # <<68, 66, 80, 70>>
    THEN ~call.ok /\ call.result.err = "InvalidMagicError"
    ELSE IF LittleEndianAt(fs[call.path].bytes, 4) # 2
    THEN ~call.ok /\ call.result.err = "UnsupportedVersionError"
    ELSE /\ call.ok
         /\ call.result.val.version_minor
              = LittleEndianAt(fs[call.path].bytes, 8)
         /\ call.result.val.entry_count
              = LittleEndianAt(fs[call.path].bytes, 36)
         /\ call.result.val.index_size
              = LittleEndianAt(fs[call.path].bytes, 44)
         /\ call.result.val.index_position
              = LittleEndianAt(fs[call.path].bytes, 64)

\* A full-length header with a wrong tag and a major version other than 2
\* was rejected for its tag.
C15_Witness ==
  /\ call.op = "parse_header"
  /\ call.result.err = "InvalidMagicError"
  /\ Len(fs[call.path].bytes) >= 96
  /\ LittleEndianAt(fs[call.path].bytes, 4) = 3

(***************************************************************************)
(* parse_index applied to drawn inputs.                                    *)
(***************************************************************************)
\* The words of one index row: type, group, instance_hi, instance_lo, offset,
\* size, uncompressed size, compression type.
IndexRows ==
  {<<1, 0, 0, 7, 96, 2, 2, COMPRESSION_NONE>>,
   <<0, 2, 0, 0, 98, 9, 2, COMPRESSION_ZLIB>>,
   <<3, 4, 0, 0, 0, 5, 6, COMPRESSION_NONE>>}

\* Per flag bit, the values its constant takes.
IndexConstants == {<<u, v, 0, w>> : u \in {0, 5}, v \in {0, 6}, w \in {0, 8}}

RECURSIVE RowLists(_)
RowLists(n) ==
  IF n = 0 THEN {<<>>}
  ELSE RowLists(n - 1) \cup
       {Append(rows, row) : rows \in {l \in RowLists(n - 1) : Len(l) = n - 1},
                            row \in IndexRows}

\* The stored bytes of a row: the fields whose flag bit is clear, then the
\* four fields every row has.
RowBytes(flags, row) ==
  (IF FlagSet(flags, 0) THEN <<>> ELSE pack_I(row[1]))
  \o (IF FlagSet(flags, 1) THEN <<>> ELSE pack_I(row[2]))
  \o (IF FlagSet(flags, 2) THEN <<>> ELSE pack_I(row[3]))
  \o (IF FlagSet(flags, 3) THEN <<>> ELSE pack_I(row[4]))
  \o pack_I(row[5]) \o pack_I(row[6]) \o pack_I(row[7])
  \o pack_H(row[8]) \o pack_H(0)

\* An index: the flags word, one constant per set bit in bit order, the rows.
IndexImage(flags, consts, rows) ==
  pack_I(flags)
  \o Concat([bit \in 1..4 |->
               IF FlagSet(flags, bit - 1) THEN pack_I(consts[bit])
               ELSE <<>>])
  \o Concat([k \in 1..Len(rows) |-> RowBytes(flags, rows[k])])

\* The number of zero constants for type and group.
ZeroConstants(flags, consts) ==
  (IF FlagSet(flags, 0) /\ consts[1] = 0 THEN 1 ELSE 0)
  + (IF FlagSet(flags, 1) /\ consts[2] = 0 THEN 1 ELSE 0)

\* Instance ids stay below 2^32: instance_hi is stored per row, as 0, and
\* where a zero constant makes the parser take later words for it, those
\* words (instance_lo, offset) are 0 as well.
WithinWord(flags, consts, rows) ==
  /\ ~FlagSet(flags, 2)
  /\ ZeroConstants(flags, consts) > 0 =>
       /\ \A k \in 1..Len(rows) : rows[k][4] = 0 /\ rows[k][5] = 0
       /\ ~(FlagSet(flags, 3) /\ ZeroConstants(flags, consts) = 2)

IndexInputs ==
  {IndexImage(x[1], x[2], x[3]) :
     x \in {y \in (0..15) \X IndexConstants \X RowLists(MaxEntries) :
              WithinWord(y[1], y[2], y[3])}}

InitIndex == InitWith({"c1"}, IndexInputs, 0, 0)

\* parse_index on a file positioned at the start of the index, with the
\* entry count the header gave.
ParseIndex(path, entry_count) ==
  /\ fs[path].exists
  /\ call' = Returned("c1", "parse_index", path, entry_count,
                      parse_index(fs[path].bytes, 0, entry_count), TRUE,
                      NoFileObject)
  /\ UNCHANGED <<fs, writes_left, ops_left, pkg, oplog, _sessions>>

NextIndex ==
  \E path \in Paths, entry_count \in 0..MaxEntries :
    ParseIndex(path, entry_count)

SpecIndex == InitIndex /\ [][NextIndex]_vars

\* The flag bits below `bit` that are set, and those that are clear.
SetBelow(flags, bit) ==
  Cardinality({b \in 0..(bit - 1) : (flags \div (2 ^ b)) % 2 = 1})
ClearBelow(flags, bit) == bit - SetBelow(flags, bit)

\* The bytes one row takes when the constants are not stored per row.
RowStride(flags) == 16 + 4 * ClearBelow(flags, 4)

\* Where row i (from 0) starts: after the flags word and the constants.
RowStart(flags, i) == 4 + 4 * SetBelow(flags, 4) + i * RowStride(flags)

\* Field `bit` of row i as the format gives it: the constant stored after the
\* flags word when the bit is set, the row's own word when it is clear.
FieldOf(b, i, bit) ==
  IF (LittleEndianAt(b, 0) \div (2 ^ bit)) % 2 = 1
  THEN LittleEndianAt(b, 4 + 4 * SetBelow(LittleEndianAt(b, 0), bit))
  ELSE LittleEndianAt(b, RowStart(LittleEndianAt(b, 0), i)
                           + 4 * ClearBelow(LittleEndianAt(b, 0), bit))

\* One of the four words every row ends with.
TailOf(b, i, word) ==
  LittleEndianAt(b, RowStart(LittleEndianAt(b, 0), i)
                      + 4 * ClearBelow(LittleEndianAt(b, 0), 4) + 4 * word)

\* C16: on an index holding entry_count rows, parse_index returns
\* entry_count entries; each field whose flag bit is set has the constant
\* stored after the flags word, 0 included, and the row stores no word for
\* it; each field whose bit is clear has the row's own word.
C16_ConstantsApplied ==
  ( /\ call.op = "parse_index"
    /\ call.k > 0
    /\ Len(fs[call.path].bytes)
         >= RowStart(LittleEndianAt(fs[call.path].bytes, 0), call.k) ) =>
    /\ call.ok
    /\ Len(call.result.val) = call.k
    /\ \A i \in 1..call.k :
         /\ call.result.val[i].type_id = FieldOf(fs[call.path].bytes, i - 1, 0)
         /\ call.result.val[i].group_id
              = FieldOf(fs[call.path].bytes, i - 1, 1)
         /\ FieldOf(fs[call.path].bytes, i - 1, 2) = 0
         /\ call.result.val[i].instance_id
              = FieldOf(fs[call.path].bytes, i - 1, 3)
         /\ call.result.val[i].offset = TailOf(fs[call.path].bytes, i - 1, 0)
         /\ call.result.val[i].compressed_size
              = TailOf(fs[call.path].bytes, i - 1, 1)
         /\ call.result.val[i].uncompressed_size
              = TailOf(fs[call.path].bytes, i - 1, 2)

(***************************************************************************)
(* write_package applied to drawn resource lists.                          *)
(***************************************************************************)
\* Resource dicts as add_resource makes them; the k-th of a list has type k.
ResourceDict(k, data, compress_flag) ==
  [type_id |-> k, group_id |-> 0, instance_id |-> 7, data |-> data,
   compress |-> compress_flag]

WriterData == {<<>>, <<65>>, <<65, 66, 67>>}

RECURSIVE ResourceLists(_)
ResourceLists(n) ==
  IF n = 0 THEN {<<>>}
  ELSE ResourceLists(n - 1) \cup
       {Append(list, ResourceDict(n, data, compress_flag)) :
          list \in {l \in ResourceLists(n - 1) : Len(l) = n - 1},
          data \in WriterData, compress_flag \in BOOLEAN}

\* A package object on an empty package file, holding a drawn list of
\* added resources.
InitWriter ==
  /\ fs = [f \in FileNames |-> IF f = "p" THEN File(EmptyPackage) ELSE NoFile]
  /\ writes_left = 0
  /\ ops_left = 0
  /\ \E list \in ResourceLists(MaxResources) :
       pkg = [c \in {"c1"} |->
                [Package([closed |-> FALSE, buffer |-> EmptyPackage], <<>>,
                         "p")
                   EXCEPT !._pending_resources = list, !._modified = TRUE]]
  /\ oplog = [c \in {"c1"} |-> NoLog]
  /\ call = Call("c1", "none", TRUE, "p")
  /\ _sessions = NoSessions

\* write_package(path, resources, create_backup) on the list the package
\* holds.
WritePackage(c, path, create_backup) ==
  /\ fs' = write_package(fs, path, pkg[c]._pending_resources, create_backup)
  /\ call' = Call(c, "write_package", TRUE, path)
  /\ UNCHANGED <<writes_left, ops_left, pkg, oplog, _sessions>>

NextWriter ==
  \E c \in Containers, path \in Paths, create_backup \in BOOLEAN :
    WritePackage(c, path, create_backup)

SpecWriter == InitWriter /\ [][NextWriter]_vars

\* Word `word` (0..7) of index row k (from 1) of the file b, found through
\* the header's index position.
EntryWord(b, k, word) ==
  LittleEndianAt(b, LittleEndianAt(b, 64) + 4 + 32 * (k - 1) + 4 * word)

\* The sum of the stored sizes of rows 1..k of the index of b.
RECURSIVE StoredUpTo(_, _)
StoredUpTo(b, k) ==
  IF k = 0 THEN 0 ELSE StoredUpTo(b, k - 1) + EntryWord(b, k, 5)

\* The stored form of a resource: its data, or the two-byte prefix and the
\* deflated data when its compress flag is set.
StoredForm(res) ==
  IF res.compress THEN <<120, 156>> \o zlib_deflate_raw(res.data)
  ELSE res.data

\* C17: in the file write_package wrote for a list of N resources, the entry
\* count is N, the k-th index entry's offset is 96 plus the stored sizes of
\* the entries before it, its stored size is the length of the k-th
\* resource's stored bytes, which lie at that offset, the index position is
\* 96 plus all stored sizes, and the file ends with the index.
C17_WriterOffsets ==
  call.op = "write_package" =>
    /\ LittleEndianAt(fs[call.path].bytes, 36)
         = Len(pkg[call.c]._pending_resources)
    /\ \A k \in 1..Len(pkg[call.c]._pending_resources) :
         /\ EntryWord(fs[call.path].bytes, k, 4)
              = 96 + StoredUpTo(fs[call.path].bytes, k - 1)
         /\ EntryWord(fs[call.path].bytes, k, 5)
              = Len(StoredForm(pkg[call.c]._pending_resources[k]))
         /\ SubSeq(fs[call.path].bytes,
                   EntryWord(fs[call.path].bytes, k, 4) + 1,
                   EntryWord(fs[call.path].bytes, k, 4)
                     + EntryWord(fs[call.path].bytes, k, 5))
              = StoredForm(pkg[call.c]._pending_resources[k])
    /\ LittleEndianAt(fs[call.path].bytes, 64)
         = 96 + StoredUpTo(fs[call.path].bytes,
                           Len(pkg[call.c]._pending_resources))
    /\ Len(fs[call.path].bytes)
         = LittleEndianAt(fs[call.path].bytes, 64)
           + LittleEndianAt(fs[call.path].bytes, 44)
    /\ LittleEndianAt(fs[call.path].bytes, 44)
         = 4 + 32 * Len(pkg[call.c]._pending_resources)

\* A list of two resources was written, the first compressed, the second
\* stored after it.
C17_Witness ==
  /\ call.op = "write_package"
  /\ Len(pkg[call.c]._pending_resources) = 2
  /\ pkg[call.c]._pending_resources[1].compress
  /\ pkg[call.c]._pending_resources[1].data # <<>>
  /\ pkg[call.c]._pending_resources[2].data # <<>>
  /\ EntryWord(fs[call.path].bytes, 2, 4) > 96 + 3
  /\ LittleEndianAt(fs[call.path].bytes, 64)
       > EntryWord(fs[call.path].bytes, 2, 4)

(***************************************************************************)
(* The index a save writes.                                                *)
(***************************************************************************)
\* C18: in the file a save wrote, the k-th index entry has compression type
\* 0x5A42 when the k-th written resource had its compress flag set and 0
\* when not, and an uncompressed size equal to the length of its data; no
\* entry has a RefPack code, also when the resource was read as RefPack.
C18_WriterTypes ==
  \A c \in Containers :
    JustSaved(c) =>
      LET written == ExpectedWritten(pkg[c], oplog[c].ops)
          b == fs[call.path].bytes
      IN /\ LittleEndianAt(b, 36) = Len(written)
         /\ \A k \in 1..Len(written) :
              /\ EntryWord(b, k, 7)
                   = IF written[k].compress THEN 23106 ELSE 0
              /\ EntryWord(b, k, 7) \notin {65535, 65534}
              /\ EntryWord(b, k, 6) = Len(written[k].data.val)

\* A save wrote a resource that the package had read as RefPack, next to a
\* resource stored uncompressed.
C18_Witness ==
  \E c \in Containers :
    /\ JustSaved(c)
    /\ \E k \in 1..Len(pkg[c]._resources) :
         /\ pkg[c]._resources[k]._entry.compression_type = COMPRESSION_REFPACK
         /\ TGIOf(pkg[c]._resources[k]._entry) \notin RemovedBy(oplog[c].ops)
         /\ pkg[c]._resources[k]._cached_data.data # <<>>
    /\ \E k \in 1..LittleEndianAt(fs[call.path].bytes, 36) :
         EntryWord(fs[call.path].bytes, k, 7) = 0

(***************************************************************************)
(* compress and decompress applied to drawn inputs.                        *)
(***************************************************************************)
RECURSIVE ByteStrings(_)
ByteStrings(n) ==
  IF n = 0 THEN {<<>>}
  ELSE ByteStrings(n - 1) \cup
       {Append(x, b) : x \in {y \in ByteStrings(n - 1) : Len(y) = n - 1},
                       b \in {65, 66}}

\* RefPack streams: a literal run that stops early, a backreference that
\* overshoots the declared size, a stream cut short, literals with a short
\* backreference, a stop code with trailing literals, a medium
\* backreference, a backreference before the start, a wrong tag, a short
\* header.
RefpackStreams ==
  {RefpackCD,
   <<16, 251, 0, 0, 4, 224, 65, 252>>,
   <<16, 251, 0, 0, 2, 224, 65, 128, 0>>,
   <<16, 251, 0, 0, 3, 224, 65>>,
   <<16, 251, 0, 0, 4, 32, 65, 0>>,
   <<16, 251, 0, 0, 2, 254, 65, 66>>,
   <<16, 251, 0, 0, 5, 224, 65, 192, 0, 0>>,
   <<16, 251, 0, 0, 3, 128, 5>>,
   <<1, 2, 3, 4, 5>>,
   <<16, 251, 0>>}

\* Data, its compressed forms, a zlib input shorter than the prefix, one
\* whose block is cut short, and the RefPack streams.
CodecInputs ==
  ByteStrings(MaxLen)
  \cup {compress_zlib(x) : x \in ByteStrings(MaxLen)}
  \cup {<<120>>, <<120, 156, 1, 1, 0, 254, 255>>}
  \cup RefpackStreams

InitCodec == InitWith({"c1"}, CodecInputs, 0, 0)

\* compress(data, COMPRESSION_ZLIB)
Compress(path) ==
  /\ fs[path].exists
  /\ call' = Returned("c1", "compress", path, 0,
                      compress(fs[path].bytes, COMPRESSION_ZLIB), FALSE,
                      NoFileObject)
  /\ UNCHANGED <<fs, writes_left, ops_left, pkg, oplog, _sessions>>

\* decompress(compress(x, COMPRESSION_ZLIB), COMPRESSION_ZLIB, len(x))
RoundTrip(path) ==
  /\ fs[path].exists
  /\ call' = Returned("c1", "roundtrip", path, Len(fs[path].bytes),
                      decompress(compress(fs[path].bytes,
                                          COMPRESSION_ZLIB).val,
                                 COMPRESSION_ZLIB, Len(fs[path].bytes)),
                      FALSE, NoFileObject)
  /\ UNCHANGED <<fs, writes_left, ops_left, pkg, oplog, _sessions>>

\* decompress(data, COMPRESSION_ZLIB, expected_size)
DecompressZlib(path, expected_size) ==
  /\ fs[path].exists
  /\ call' = Returned("c1", "decompress_zlib", path, expected_size,
                      decompress(fs[path].bytes, COMPRESSION_ZLIB,
                                 expected_size),
                      FALSE, NoFileObject)
  /\ UNCHANGED <<fs, writes_left, ops_left, pkg, oplog, _sessions>>

\* decompress(data, COMPRESSION_REFPACK, expected_size)
DecompressRefpack(path, expected_size) ==
  /\ fs[path].exists
  /\ call' = Returned("c1", "decompress_refpack", path, expected_size,
                      decompress(fs[path].bytes, COMPRESSION_REFPACK,
                                 expected_size),
                      FALSE, NoFileObject)
  /\ UNCHANGED <<fs, writes_left, ops_left, pkg, oplog, _sessions>>

NextCodec ==
  \/ \E path \in Paths : Compress(path)
  \/ \E path \in Paths : RoundTrip(path)
  \/ \E path \in Paths, expected_size \in 0..MaxExpected :
       DecompressZlib(path, expected_size)
  \/ \E path \in Paths, expected_size \in 0..MaxExpected :
       DecompressRefpack(path, expected_size)

SpecCodec == InitCodec /\ [][NextCodec]_vars

\* C19: compress(x, DEFLATE_VARIANT) is the bytes 78 9C followed by a raw
\* DEFLATE stream that inflates to x, and decompressing it with len(x) as
\* the expected size returns x, the empty string included.
C19_ZlibRoundTrip ==
  /\ call.op = "compress" =>
       /\ call.ok
       /\ SubSeq(call.result.val, 1, 2) = <<120, 156>>
       /\ zlib_inflate_raw(SubSeq(call.result.val, 3, Len(call.result.val)))
            = Ok(fs[call.path].bytes)
  /\ call.op = "roundtrip" =>
       /\ call.ok
       /\ call.result.val = fs[call.path].bytes

\* The empty string went through compress and decompress.
C19_Witness ==
  /\ call.op = "roundtrip" /\ call.ok
  /\ fs[call.path].bytes = <<>>
  /\ call.result.val = <<>>

\* The output the decoder of the last call reached before the length check.
Decoded ==
  IF call.op = "decompress_zlib"
  THEN IF Len(fs[call.path].bytes) < 2 THEN Raise("CompressionError")
       ELSE zlib_inflate_raw(SubSeq(fs[call.path].bytes, 3,
                                    Len(fs[call.path].bytes)))
  ELSE IF \/ Len(fs[call.path].bytes) < 5
          \/ SubSeq(fs[call.path].bytes, 1, 2) # <<16, 251>>
  THEN Raise("CompressionError")
  ELSE RefpackLoop(fs[call.path].bytes, 5, <<>>, call.k)

\* C20: a decompress call with a positive expected size, for the DEFLATE
\* variant or RefPack, returns only a buffer of exactly that length; when
\* the decoder ends with any other length, shorter or longer, the call
\* raises CompressionError.
C20_ExpectedSizeEnforced ==
  (call.op \in {"decompress_zlib", "decompress_refpack"} /\ call.k > 0) =>
    /\ call.ok => Len(call.result.val) = call.k
    /\ call.ok => call.result = Decoded
    /\ (Decoded.ok /\ Len(Decoded.val) # call.k) =>
         ~call.ok /\ call.result.err = "CompressionError"
    /\ ~call.ok => call.result.err = "CompressionError"

\* A RefPack backreference carried the output past the expected size and
\* the call raised.
C20_Witness ==
  /\ call.op = "decompress_refpack" /\ call.k > 0
  /\ Decoded.ok
  /\ Len(Decoded.val) > call.k
  /\ ~call.ok

(***************************************************************************)
(* session.py: the registry of edit sessions.  Package objects live in     *)
(* pkg; a slot of pkg that was never used is a new object.                 *)
(***************************************************************************)
\* The path strings callers pass; "./p" is another spelling of "p".
Spellings == {"p", "./p", "q"}

\* Path(path).resolve()
resolve(path) == IF path = "./p" THEN "p" ELSE path

\* Mutant: the registry is keyed by the path string as given.
SessionKey_as_given(path) == path

\* path_str = str(Path(path).resolve())
SessionKey(path) == resolve(path)

\* EditSession(path=..., package=...)
EditSession(path, package) ==
  [path |-> path, package |-> package, changes |-> <<>>]

PendingChange(action, tgi, data) ==
  [action |-> action, tgi |-> tgi, data |-> data]

\* Two package files, the first of them possibly one that does not open.
InitSession ==
  /\ \E seed \in {PlainPackage, EmptyPackage, ShortFile} :
       fs = [f \in FileNames |->
               IF f = "p" THEN File(seed)
               ELSE IF f = "q" THEN File(EmptyPackage) ELSE NoFile]
  /\ writes_left = 0
  /\ ops_left = MaxSessionOps
  /\ pkg = [c \in {"c1", "c2", "c3"} |-> NoPackage]
  /\ oplog = [c \in {"c1", "c2", "c3"} |-> NoLog]
  /\ call = Call("c1", "none", TRUE, "p")
  /\ _sessions = NoSessions

\* get_session(path) when the registry holds the key.
GetSessionCached(path) ==
  /\ SessionKey(path) \in DOMAIN _sessions
  /\ call' = Returned(_sessions[SessionKey(path)].package, "get_session",
                      path, 0, Ok(<<>>), FALSE, NoFileObject)
  /\ UNCHANGED <<fs, writes_left, ops_left, pkg, oplog, _sessions>>

\* get_session(path) when it does not: Package.open(path), and on success a
\* new EditSession stored under the key.
GetSessionNew(path, c) ==
  /\ SessionKey(path) \notin DOMAIN _sessions
  /\ pkg[c] = NoPackage
  /\ fs[resolve(path)].exists
  /\ LET Opened(opened) ==
           /\ pkg' = IF opened.ok THEN [pkg EXCEPT ![c] = opened.val] ELSE pkg
           /\ _sessions' =
                IF opened.ok
                THEN (SessionKey(path) :> EditSession(resolve(path), c))
                       @@ _sessions
                ELSE _sessions
           /\ call' = Returned(c, "get_session", path, 0,
                               IF opened.ok THEN Ok(<<>>)
                               ELSE Raise(opened.err),
                               TRUE, opened.file)
     IN Opened(PackageOpen(fs[resolve(path)].bytes, resolve(path)))
  /\ UNCHANGED <<fs, writes_left, ops_left, oplog>>

\* close_session(path): the session's package is closed and the key deleted;
\* nothing happens when the key is not there.
CloseSession(path) ==
  /\ IF SessionKey(path) \in DOMAIN _sessions
     THEN /\ pkg' = [pkg EXCEPT ![_sessions[SessionKey(path)].package]._file =
                                  file_close(@)]
          /\ _sessions' = [key \in DOMAIN _sessions \ {SessionKey(path)} |->
                             _sessions[key]]
     ELSE UNCHANGED <<pkg, _sessions>>
  /\ call' = Returned("c1", "close_session", path, 0, Ok(<<>>), FALSE,
                      NoFileObject)
  /\ UNCHANGED <<fs, writes_left, ops_left, oplog>>

\* EditSession.add_resource on the session stored under key.
SessionAddResource(key, tgi, data) ==
  /\ key \in DOMAIN _sessions
  /\ ops_left > 0
  /\ _sessions' = [_sessions EXCEPT ![key].changes =
                     Append(@, PendingChange("add", tgi, data))]
  /\ ops_left' = ops_left - 1
  /\ call' = Returned(_sessions[key].package, "other", key, 0, Ok(<<>>),
                      FALSE, NoFileObject)
  /\ UNCHANGED <<fs, writes_left, pkg, oplog>>

\* EditSession.close on the session stored under key: the package is
\* closed, the registry keeps the session.
SessionClose(key) ==
  /\ key \in DOMAIN _sessions
  /\ ~pkg[_sessions[key].package]._file.closed
  /\ pkg' = [pkg EXCEPT ![_sessions[key].package]._file = file_close(@)]
  /\ call' = Returned(_sessions[key].package, "other", key, 0, Ok(<<>>),
                      FALSE, NoFileObject)
  /\ UNCHANGED <<fs, writes_left, ops_left, oplog, _sessions>>

NextSession ==
  \/ \E path \in Spellings : GetSessionCached(path)
  \/ \E path \in Spellings, c \in Containers : GetSessionNew(path, c)
  \/ \E path \in Spellings : CloseSession(path)
  \/ \E key \in Paths, data \in DataValues :
       SessionAddResource(key, <<1, 0, 7>>, data)
  \/ \E key \in Paths : SessionClose(key)

SpecSession == InitSession /\ [][NextSession]_vars

\* The registry holds one session per file: no two keys name the same file,
\* no two sessions share a package, each session's package was opened on the
\* file its key names, and a package not closed belongs to a session.
OnePerPath ==
  /\ \A k1, k2 \in DOMAIN _sessions :
       ( \/ resolve(k1) = resolve(k2)
         \/ _sessions[k1].package = _sessions[k2].package
         \/ pkg[_sessions[k1].package]._path
              = pkg[_sessions[k2].package]._path ) => k1 = k2
  /\ \A k \in DOMAIN _sessions :
       /\ pkg[_sessions[k].package].live
       /\ pkg[_sessions[k].package]._path = resolve(k)
  /\ \A c \in Containers :
       (pkg[c].live /\ ~pkg[c]._file.closed) =>
         \E k \in DOMAIN _sessions : _sessions[k].package = c

\* C21: the registry holds at most one session and one open package per
\* resolved path; get_session on a spelling whose resolved path has a session
\* returns that session, its queued changes as they were, and opens nothing;
\* only when there is none does it open the file, into a new package with no
\* queued changes; only close_session takes a session out of the registry.
C21_OneSessionPerPath ==
  [][ /\ OnePerPath'
      /\ call'.op = "get_session" =>
           IF \E k \in DOMAIN _sessions : resolve(k) = resolve(call'.path)
           THEN /\ call'.ok /\ ~call'.read
                /\ \E k \in DOMAIN _sessions :
                     /\ resolve(k) = resolve(call'.path)
                     /\ call'.c = _sessions[k].package
                /\ _sessions' = _sessions
                /\ pkg' = pkg
           ELSE /\ call'.read
                /\ pkg[call'.c] = NoPackage
                /\ call'.ok =>
                     \E k \in DOMAIN _sessions' :
                       /\ resolve(k) = resolve(call'.path)
                       /\ _sessions'[k].package = call'.c
                       /\ _sessions'[k].changes = <<>>
                       /\ ~pkg'[call'.c]._file.closed
                /\ ~call'.ok => _sessions' = _sessions /\ pkg' = pkg
      /\ call'.op = "close_session" =>
           /\ \A k \in DOMAIN _sessions' : resolve(k) # resolve(call'.path)
           /\ \A k \in DOMAIN _sessions :
                resolve(k) # resolve(call'.path) =>
                  k \in DOMAIN _sessions' /\ _sessions'[k] = _sessions[k]
      /\ call'.op \notin {"get_session", "close_session"} =>
           /\ DOMAIN _sessions' = DOMAIN _sessions
           /\ \A k \in DOMAIN _sessions :
                _sessions'[k].package = _sessions[k].package
    ]_vars

\* get_session under another spelling returned the session that holds a
\* queued change, while a second session is open on the other file.
C21_Witness ==
  /\ call.op = "get_session" /\ call.ok /\ ~call.read
  /\ call.path = "./p"
  /\ "p" \in DOMAIN _sessions /\ "q" \in DOMAIN _sessions
  /\ _sessions["p"].package = call.c
  /\ _sessions["p"].changes # <<>>

(***************************************************************************)
(* merge.py                                                                *)
(***************************************************************************)
\* all_resources[tgi] = res on a dict kept as the list of its values in
\* insertion order: a key already there keeps its place.
DictSet(values, res) ==
  IF \E k \in 1..Len(values) : TGIOf(values[k]) = TGIOf(res)
  THEN [k \in 1..Len(values) |->
          IF TGIOf(values[k]) = TGIOf(res) THEN res ELSE values[k]]
  ELSE Append(values, res)

\* The inner loop of merge_packages over the handles of one package opened
\* on path: the dict afterwards, or the exception extract raised.
RECURSIVE MergeResources(_, _, _, _, _, _)
MergeResources(all_resources, P, bytes, path, resolutions, k) ==
  IF k > Len(P._resources) THEN Ok(all_resources)
  ELSE IF /\ TGIOf(P._resources[k]._entry) \in DOMAIN resolutions
          /\ resolutions[TGIOf(P._resources[k]._entry)] # path
  THEN MergeResources(all_resources, P, bytes, path, resolutions, k + 1)
  ELSE
    LET Extracted(x, entry) ==
          IF ~x.result.ok THEN x.result
          ELSE MergeResources(
                 DictSet(all_resources,
                         [type_id |-> entry.type_id,
                          group_id |-> entry.group_id,
                          instance_id |-> entry.instance_id,
                          data |-> x.result.val,
                          compress |-> is_compressed(entry)]),
                 P, bytes, path, resolutions, k + 1)
    IN Extracted(extract(P._resources[k], P._file, bytes),
                 P._resources[k]._entry)

\* The outer loop over package_paths from position i on.
RECURSIVE MergeSources(_, _, _, _, _)
MergeSources(files, package_paths, resolutions, i, all_resources) ==
  IF i > Len(package_paths) THEN Ok(all_resources)
  ELSE IF ~files[package_paths[i]].exists THEN Raise("FileNotFoundError")
  ELSE
    LET Merged(got) ==
          IF ~got.ok THEN got
          ELSE MergeSources(files, package_paths, resolutions, i + 1, got.val)
        Opened(opened) ==
          IF ~opened.ok THEN Raise(opened.err)
          ELSE Merged(MergeResources(all_resources, opened.val,
                                     files[package_paths[i]].bytes,
                                     package_paths[i], resolutions, 1))
    IN Opened(PackageOpen(files[package_paths[i]].bytes, package_paths[i]))

\* merge_packages: the files afterwards, or the exception.
merge_packages(files, package_paths, output_path, resolutions) ==
  LET Written(got) ==
        IF ~got.ok THEN [ok |-> FALSE, err |-> got.err, files |-> files]
        ELSE [ok |-> TRUE, err |-> "",
              files |-> write_package(files, output_path, got.val, FALSE)]
  IN Written(MergeSources(files, package_paths, resolutions, 1, <<>>))

InitMerge ==
  /\ \E seed, other \in {PlainPackage, RefpackPackage, EmptyPackage,
                          CorruptPackage} :
       fs = [f \in FileNames |->
               IF f = "p" THEN File(seed)
               ELSE IF f = "q" THEN File(other) ELSE NoFile]
  /\ writes_left = MaxWrites
  /\ ops_left = 0
  /\ pkg = [c \in {"c1"} |-> NoPackage]
  /\ oplog = [c \in {"c1"} |-> NoLog]
  /\ call = Call("c1", "none", TRUE, "p")
  /\ _sessions = NoSessions

MergePackages(package_paths, output_path, resolutions) ==
  /\ writes_left > 0
  /\ LET Merged(merged) ==
           /\ fs' = merged.files
           /\ writes_left' = IF merged.ok THEN writes_left - 1
                             ELSE writes_left
           /\ call' = [args |-> [package_paths |-> package_paths,
                                  resolutions |-> resolutions]]
                       @@ Returned("c1", "merge_packages", output_path, 0,
                                   IF merged.ok THEN Ok(<<>>)
                                   ELSE Raise(merged.err),
                                   TRUE, NoFileObject)
     IN Merged(merge_packages(fs, package_paths, output_path, resolutions))
  /\ UNCHANGED <<ops_left, pkg, oplog, _sessions>>

\* The calls of merge_packages: one or more source paths, an output path,
\* and no resolution or one for a single TGI.
NextMerge ==
  \E package_paths \in {<<"p">>, <<"p", "q">>, <<"q", "p">>,
                         <<"p", "q", "p">>},
     output_path \in Paths,
     resolutions \in {[tgi \in {} |-> "p"]}
                        \cup {tgi :> path : tgi \in TGIs, path \in Paths} :
    MergePackages(package_paths, output_path, resolutions)

SpecMerge == InitMerge /\ [][NextMerge]_vars

\* The data stored under tgi in the package file at path, as a fresh open
\* and extract give them.
StoredUnder(files, path, tgi) ==
  WithTGI(ContentOf(PackageOpen(files[path].bytes, path).val,
                    files[path].bytes), tgi)

DataIn(files, path, tgi) ==
  LET stored == StoredUnder(files, path, tgi)
  IN {stored[k].data : k \in 1..Len(stored)}

\* The positions in package_paths of the packages that contain tgi.
Holders(files, package_paths, tgi) ==
  {i \in 1..Len(package_paths) : DataIn(files, package_paths[i], tgi) # {}}

\* C22: after merge_packages returns, every TGI found in an input package
\* is in the output exactly once; without a resolution its data are those
\* the last package of package_paths that contains it holds, and with
\* resolutions[T] = p they are those package p holds.
C22_MergeKeepsEveryTGI ==
  [][ (call'.op = "merge_packages" /\ call'.ok) =>
        \A tgi \in TGIs :
          Holders(fs, call'.args.package_paths, tgi) # {} =>
            /\ Len(StoredUnder(fs', call'.path, tgi)) = 1
            /\ StoredUnder(fs', call'.path, tgi)[1].data \in
                 IF tgi \in DOMAIN call'.args.resolutions
                 THEN DataIn(fs, call'.args.resolutions[tgi], tgi)
                 ELSE LET holders ==
                            Holders(fs, call'.args.package_paths, tgi)
                          last == CHOOSE i \in holders :
                                    \A j \in holders : j <= i
                      IN DataIn(fs, call'.args.package_paths[last], tgi)
    ]_vars

\* The TGI and extracted bytes of every resource a fresh open of the file
\* at path finds, as a bag.
Holding(files, path) ==
  LET content == ContentOf(PackageOpen(files[path].bytes, path).val,
                           files[path].bytes)
  IN [pair \in {<<content[k].tgi, content[k].data>> : k \in DOMAIN content}
        |-> Cardinality({k \in DOMAIN content :
                           <<content[k].tgi, content[k].data>> = pair})]

\* C23: what a successful save() wrote is still in the file after a later
\* save() of the same container with no removal in between, and nothing
\* removed comes back without being added again: a container that saves
\* twice in a row to the same path, with no mutation and no other call in
\* between, leaves the resources of the file as the first save wrote them.
C23_SavedChangesSurvive ==
  [][ ( /\ call.op = "save" /\ call.ok
        /\ call'.op = "save" /\ call'.ok
        /\ call'.c = call.c /\ call'.path = call.path )
      => Holding(fs', call'.path) = Holding(fs, call.path)
    ]_vars

\* extract() raises for a resource of P that save has to keep, when the
\* reads are served from source.
SurvivorFails(P, source) ==
  \E k \in 1..Len(P._resources) :
    /\ TGIOf(P._resources[k]._entry) \notin P._removed_tgis
    /\ ~extract(P._resources[k], P._file, source).result.ok

\* C24: save() raises when the extract of a resource it keeps raises, and a
\* save() that raised has created no backup and written no file, and has
\* left the pending list, the removed set and the modified flag as they
\* were.
C24_FailedSaveChangesNothing ==
  [][ \A c \in Containers :
        (call'.op = "save" /\ call'.c = c /\ pkg[c].live) =>
          /\ (\A source \in ReadSources(pkg[c], fs) :
                SurvivorFails(pkg[c], source)) => ~call'.ok
          /\ ~call'.ok =>
                /\ \E source \in ReadSources(pkg[c], fs) :
                     SurvivorFails(pkg[c], source)
                /\ fs' = fs
                /\ pkg'[c]._pending_resources = pkg[c]._pending_resources
                /\ pkg'[c]._removed_tgis = pkg[c]._removed_tgis
                /\ pkg'[c]._modified = pkg[c]._modified
    ]_vars

\* A save raised on a package with a pending resource, a removed TGI and
\* the modified flag set.
C24_Witness ==
  /\ call.op = "save" /\ ~call.ok
  /\ pkg[call.c]._pending_resources # <<>>
  /\ pkg[call.c]._removed_tgis # {}
  /\ pkg[call.c]._modified

(***************************************************************************)
(* Sharing and crashes: two package objects of one process opened on the   *)
(* same path, each adding resources and saving to that path, and the       *)
(* process ending inside the write of a save.                              *)
(***************************************************************************)
InitShared ==
  InitWith({"c1", "c2"}, {EmptyPackage, PlainPackage}, MaxOps,
           MaxBackupWrites)

\* Package.save(path) of a process that ends inside write_package, after
\* the destination was opened and `writes` f.write calls were made: the
\* package objects of the process are gone, and with them what was left
\* of its run.
SaveCrashed(c, target, writes) ==
  /\ pkg[c].live
  /\ writes_left > 0
  /\ LET P == pkg[c]
         path == IF target = "None" THEN P._path ELSE target
         Crashed(got) ==
           /\ got.ok
           /\ writes <= Len(got.all) + 1
           /\ fs' = write_package_interrupted(fs, path, got.all, P._modified,
                                              writes)
     IN /\ \E source \in ReadSources(P, fs) :
             Crashed(SaveResources(P, source))
        /\ call' = Call(c, "crash", FALSE, path)
  /\ writes_left' = 0
  /\ ops_left' = 0
  /\ pkg' = [other \in DOMAIN pkg |-> NoPackage]
  /\ oplog' = [other \in DOMAIN oplog |-> NoLog]
  /\ UNCHANGED _sessions

NextShared ==
  \/ \E c \in Containers : Open(c, "p")
  \/ \E c \in Containers, tgi \in TGIs : AddResource(c, tgi, <<65>>, FALSE)
  \/ \E c \in Containers : Save(c, "None")
  \/ \E c \in Containers, writes \in 0..(MaxEntries + 1) :
       SaveCrashed(c, "None", writes)

SpecShared == InitShared /\ [][NextShared]_vars

\* The step is a save to path, returned or cut off, that overwrites a file
\* that existed.
Overwrites(path) ==
  /\ call'.op \in {"save", "crash"}
  /\ call'.ok = (call'.op = "save")
  /\ call'.path = path
  /\ fs[path].exists

\* C25 as stated: whenever a save overwrites an existing destination P,
\* P.bak exists during and after the write and holds a complete package.
C25_BackupOnEveryOverwrite ==
  [][ \A path \in Paths :
        Overwrites(path) =>
          /\ fs'[BackupPath(path)].exists
          /\ PackageOpen(fs'[BackupPath(path)].bytes, BackupPath(path)).ok
    ]_vars

\* C25, amended: whenever a save of a package whose modified flag is set
\* overwrites an existing destination P, P.bak exists during and after the
\* write and holds a complete earlier copy of P: all the bytes P held
\* before this write when the save made the backup, and the backup that
\* was there otherwise.
C25_BackupWhenModified ==
  [][ \A path \in Paths :
        (Overwrites(path) /\ pkg[call'.c]._modified) =>
          /\ fs'[BackupPath(path)].exists
          /\ fs'[BackupPath(path)] =
               IF fs[BackupPath(path)].exists THEN fs[BackupPath(path)]
               ELSE fs[path]
    ]_vars

\* A save of a modified package was cut off after the header and one data
\* chunk were written: the destination is no package, and its backup is.
C25_Witness ==
  /\ call.op = "crash"
  /\ Len(fs[call.path].bytes) > HEADER_SIZE
  /\ ~PackageOpen(fs[call.path].bytes, call.path).ok
  /\ fs[BackupPath(call.path)].exists
  /\ PackageOpen(fs[BackupPath(call.path)].bytes, call.path).ok

\* Package objects c and d are open on path "p" with the same committed
\* list, d has added one resource and not saved yet, and c has added one
\* resource with another TGI and has just saved it to "p".
BothAdded(c, d) ==
  /\ c # d /\ pkg[c].live /\ pkg[d].live
  /\ pkg[c]._path = "p" /\ pkg[d]._path = "p"
  /\ [k \in DOMAIN pkg[c]._resources |-> pkg[c]._resources[k]._entry]
       = [k \in DOMAIN pkg[d]._resources |-> pkg[d]._resources[k]._entry]
  /\ oplog[c].saved /\ ~oplog[d].saved
  /\ Len(Adds(oplog[c].ops)) = 1 /\ Len(oplog[c].ops) = 1
  /\ Len(Adds(oplog[d].ops)) = 1 /\ Len(oplog[d].ops) = 1
  /\ oplog[c].ops[1].tgi # oplog[d].ops[1].tgi
  /\ call.op = "save" /\ call.ok /\ call.c = c /\ call.path = "p"

\* The number of handles of P with the TGI.
CommittedUnder(P, tgi) ==
  Cardinality({k \in DOMAIN P._resources : TGIOf(P._resources[k]._entry) = tgi})

InitRefpack ==
  /\ \E cmd \in 0..255, byte2 \in {0, 3, 4, 35, 64, 96, 128, 255} :
       \E byte3 \in IF cmd \in 192..223 THEN {0, 35, 48, 64} ELSE {0},
          embedded \in IF byte2 = 0 THEN {7, 200} ELSE {200} :
         LET body == IF cmd <= 127
                     THEN SubSeq(<<69, 70, 71>>, 1, (cmd \div 32) % 4)
                            \o <<byte2>>
                     ELSE IF cmd <= 191 THEN <<byte2>>
                     ELSE IF cmd <= 223 THEN <<byte2, byte3>>
                     ELSE IF cmd <= 251 THEN [k \in 1..(cmd - 223) |-> 68 + k]
                     ELSE [k \in 1..(cmd - 252) |-> 68 + k]
             stream == <<227, 65, 66, 67, 68, cmd>> \o body \o <<252>>
         IN \E cut \in 5..Len(stream), bad \in BOOLEAN :
              fs = [f \in FileNames |->
                      IF f # "p" THEN NoFile
                      ELSE IF bad /\ cut = 5 /\ cmd < 2
                      THEN File(SubSeq(<<16, 250, 0, 0, 1, 252>>, 1, 4 + 2 * cmd))
                      ELSE File(<<16, 251, 0, 0, embedded>>
                                  \o SubSeq(stream, 1, cut))]
  /\ writes_left = 0
  /\ ops_left = 0
  /\ pkg = [c \in {"c1"} |-> NoPackage]
  /\ oplog = [c \in {"c1"} |-> NoLog]
  /\ call = Call("c1", "none", TRUE, "p")
  /\ _sessions = NoSessions

\* The call record of a decompress_refpack call on the file at path.
RefpackCall(op, path, pos, result, expected_size, uncompressed_size, stop) ==
  [args |-> [expected_size |-> expected_size,
             uncompressed_size |-> uncompressed_size, stop |-> stop]]
  @@ Returned("c1", op, path, pos, result, FALSE, NoFileObject)

\* decompress_refpack(data, expected_size) up to the while loop.
RefpackStart(path, expected_size) ==
  /\ call.op = "none"
  /\ fs[path].exists
  /\ LET data == fs[path].bytes
     IN call' =
          IF Len(data) < 5
          THEN RefpackCall("decompress_refpack", path, 0,
                           Raise("CompressionError"), expected_size, 0, FALSE)
          ELSE IF data[1] # 16 \/ data[2] # 251
          THEN RefpackCall("decompress_refpack", path, 0,
                           Raise("CompressionError"), expected_size, 0, FALSE)
          ELSE RefpackCall("loop", path, 5, Ok(<<>>), expected_size,
                           IF expected_size > 0
                              /\ data[3] * 65536 + data[4] * 256 + data[5]
                                   # expected_size
                           THEN expected_size
                           ELSE data[3] * 65536 + data[4] * 256 + data[5],
                           FALSE)
  /\ UNCHANGED <<fs, writes_left, ops_left, pkg, oplog, _sessions>>

\* Mutant: the loop does not look at the output length.
RefpackGoesOn_past_target ==
  /\ call.op = "loop" /\ ~call.args.stop
  /\ call.k < Len(fs[call.path].bytes)

\* The while condition of decompress_refpack.
RefpackGoesOn ==
  /\ call.op = "loop" /\ ~call.args.stop
  /\ call.k < Len(fs[call.path].bytes)
  /\ Len(call.result.val) < call.args.uncompressed_size

\* One pass through the loop body; an error raised in it ends the call.
RefpackIteration ==
  /\ RefpackGoesOn
  /\ LET Stepped(step) ==
           call' = IF step.ok
                   THEN RefpackCall("loop", call.path, step.pos, Ok(step.val),
                                    call.args.expected_size,
                                    call.args.uncompressed_size, step.stop)
                   ELSE RefpackCall("decompress_refpack", call.path, step.pos,
                                    Raise(step.err), call.args.expected_size,
                                    call.args.uncompressed_size, FALSE)
     IN Stepped(RefpackCommand(fs[call.path].bytes, call.k, call.result.val))
  /\ UNCHANGED <<fs, writes_left, ops_left, pkg, oplog, _sessions>>

\* The loop has ended: the length check and the return.
RefpackReturn ==
  /\ call.op = "loop"
  /\ ~RefpackGoesOn
  /\ call' = RefpackCall("decompress_refpack", call.path, call.k,
                         IF call.args.expected_size > 0
                            /\ Len(call.result.val) # call.args.expected_size
                         THEN Raise("CompressionError")
                         ELSE call.result,
                         call.args.expected_size,
                         call.args.uncompressed_size, call.args.stop)
  /\ UNCHANGED <<fs, writes_left, ops_left, pkg, oplog, _sessions>>

NextRefpack ==
  \/ \E expected_size \in {0, 7} : RefpackStart("p", expected_size)
  \/ RefpackIteration
  \/ RefpackReturn

SpecRefpack == InitRefpack /\ [][NextRefpack]_vars

\* The command at position pos of a stream as the format reads it: the
\* number of literal bytes and of argument bytes that follow the command
\* byte, whether they are all there, and for a backreference its 1-based
\* offset and its length.
Literals(cmd) ==
  IF cmd <= 127 THEN (cmd \div 32) % 4
  ELSE IF cmd >= 224 /\ cmd <= 251 THEN cmd - 223
  ELSE 0

Arguments(cmd) == IF cmd <= 191 THEN 1 ELSE IF cmd <= 223 THEN 2 ELSE 0

CommandAt(data, pos) ==
  LET cmd == data[pos + 1]
      at == pos + 1 + Literals(cmd)
  IN [cmd |-> cmd,
      backref |-> cmd <= 223,
      literals |-> ReadAt(data, pos + 1, Literals(cmd)),
      next |-> at + Arguments(cmd),
      complete |-> at + Arguments(cmd) <= Len(data),
      offset |-> IF at + Arguments(cmd) > Len(data) THEN 0
                 ELSE IF cmd <= 127
                 THEN (cmd % 32) * 8 + (data[at + 1] \div 32) + 1
                 ELSE IF cmd <= 191
                 THEN (cmd % 4) * 256 + data[at + 1] + 1
                 ELSE IF cmd <= 223
                 THEN (cmd % 4) * 4096 + data[at + 1] * 16
                        + (data[at + 2] \div 16) + 1
                 ELSE 0,
      length |-> IF at + Arguments(cmd) > Len(data) THEN 0
                 ELSE IF cmd <= 127 THEN (data[at + 1] % 32) + 3
                 ELSE IF cmd <= 191 THEN ((cmd \div 4) % 8) + 3
                 ELSE IF cmd <= 223 THEN ((cmd \div 4) % 16) + 4
                 ELSE 0]

\* The command the loop is about to process.
Current == CommandAt(fs[call.path].bytes, call.k)

\* The call ended with CompressionError and no output.
RaisedCompressionError ==
  /\ call'.op = "decompress_refpack"
  /\ call'.result = Raise("CompressionError")

\* C27: a backreference whose offset is greater than the length of the
\* output, the literals of its own command included, ends the call with
\* CompressionError and no output; with an offset up to that length, the
\* length itself included, the command is accepted and the loop goes on.
C27_OffsetBeyondOutput ==
  [][ (RefpackGoesOn /\ Current.backref /\ Current.complete) =>
        IF Current.offset
             > Len(call.result.val) + Len(Current.literals)
        THEN RaisedCompressionError
        ELSE call'.op = "loop" /\ call'.result.ok
    ]_vars

\* The short backreference 80 03 (offset 4, length 3) was accepted on the
\* output ABCD.
C27_Witness ==
  /\ call.op = "loop"
  /\ Len(fs[call.path].bytes) >= 12
  /\ SubSeq(fs[call.path].bytes, 11, 12) = <<128, 3>>
  /\ call.k = 12
  /\ call.result.val = <<65, 66, 67, 68, 65, 66, 67>>

\* C28: an accepted backreference (offset o, length n) on an output of
\* length L, the command's literals included, leaves the first L bytes as
\* they are and appends exactly n bytes, the i-th of which is the byte at
\* position L - o + i of the output as it then is.
C28_OverlappingCopy ==
  [][ ( /\ RefpackGoesOn /\ Current.backref /\ Current.complete
        /\ Current.offset <= Len(call.result.val) + Len(Current.literals) )
      =>
        LET before == call.result.val \o Current.literals
            after == call'.result.val
        IN /\ Len(after) = Len(before) + Current.length
           /\ SubSeq(after, 1, Len(before)) = before
           /\ \A i \in 1..Current.length :
                after[Len(before) + i]
                  = after[Len(before) - Current.offset + i]
    ]_vars

\* The backreference 00 23 (offset 2, length 6) on the output ABCD has
\* repeated CD three times.
C28_Witness ==
  /\ call.op = "loop"
  /\ Len(fs[call.path].bytes) >= 12
  /\ SubSeq(fs[call.path].bytes, 11, 12) = <<0, 35>>
  /\ call.k = 12
  /\ call.result.val = <<65, 66, 67, 68, 67, 68, 67, 68, 67, 68>>

C30_TargetAndTermination ==
  [][ LET data == fs["p"].bytes
      IN /\ (call.op = "none" /\ call'.op = "loop") =>
              call'.args.uncompressed_size =
                IF call'.args.expected_size > 0
                THEN call'.args.expected_size
                ELSE data[3] * 65536 + data[4] * 256 + data[5]
         /\ (call.op = "loop" /\ call'.op = "loop") =>
              /\ ~call.args.stop
              /\ Len(call.result.val) < call.args.uncompressed_size
              /\ call'.k > call.k
              /\ call'.k <= Len(data)
              /\ Current.cmd >= 252 =>
                   /\ call'.args.stop
                   /\ call'.result.val =
                        call.result.val
                          \o ReadAt(data, call.k + 1, Current.cmd - 252)
         /\ ( /\ call.op = "loop"
              /\ \/ call.args.stop
                 \/ Len(call.result.val) >= call.args.uncompressed_size ) =>
              /\ call'.op = "decompress_refpack"
              /\ call'.k = call.k
              /\ call'.result.ok => call'.result = call.result
         /\ call'.op = "decompress_refpack" =>
              call'.result = decompress_refpack(data, call'.args.expected_size)
    ]_vars

\* A call with expected size 7 on a stream whose embedded size is 200 has
\* returned its 7 bytes with the stop code still unread.
C30_Witness ==
  /\ call.op = "decompress_refpack" /\ call.ok
  /\ call.args.expected_size = 7
  /\ fs["p"].bytes[5] = 200
  /\ Len(call.result.val) = 7
  /\ ~call.args.stop
  /\ call.k < Len(fs["p"].bytes)

====
